---- MODULE Spec2Model ----
(***************************************************************************)
(* The analysis pipeline of src/src/services/analysisPipeline.js: the      *)
(* exported AnalysisPipeline object, the executeAnalysis runs made on it,  *)
(* and the collaborators at their interface (document processor, policy    *)
(* classifier, risk engine, enrichment call, progress observer).           *)
(*                                                                         *)
(* A run is cut into the pieces that execute without interruption: a piece *)
(* ends where executeAnalysis (or a method it awaits) reaches an await, so *)
(* that pieces of two runs on the same pipeline object interleave exactly  *)
(* where the JavaScript event loop lets them.                              *)
(***************************************************************************)
EXTENDS Integers, Sequences, FiniteSets, TLC

\* The calls of executeAnalysis that may be in progress at the same time.
Runs == {"A", "B"}

\* AnalysisPipeline.constructor: this.stages
stages ==
  << "validation", "document_processing", "policy_classification",
     "risk_analysis", "ai_analysis", "result_compilation" >>

VARIABLES
  currentStage,    \* this.currentStage (index into stages, 0-based as in the code)
  stageProgress,   \* this.stageProgress: stage name -> record of the last updateProgress
  errors,          \* this.errors
  warnings,        \* this.warnings
  env,             \* what the callers and collaborators of this configuration can do
  run,             \* per call of executeAnalysis: its position, arguments and locals
  scoring,         \* a use of calculateRiskScore: the risk factor list and its score
  classifier,      \* a call of PolicyClassifier.classifyPolicy: arguments and result
  engine,          \* a call of RiskEngine.analyzeRisks: arguments, analyzer results, result
  analysis         \* a call of executeAnalysis on documents, fields and profiles: its
                   \* arguments, the results of its stages, and what it returns

vars ==
  << currentStage, stageProgress, errors, warnings, env, run,
     scoring, classifier, engine, analysis >>

----------------------------------------------------------------------------
(* Arithmetic of the code *)

\* Math.round(n / d) for n >= 0, d > 0 (ties go up)
Round(n, d) == (2 * n + d) \div (2 * d)

Max(a, b) == IF a >= b THEN a ELSE b
Min(a, b) == IF a <= b THEN a ELSE b

RECURSIVE SumSeq(_)
SumSeq(s) == IF s = << >> THEN 0 ELSE Head(s) + SumSeq(Tail(s))

----------------------------------------------------------------------------
(* Values a run has not computed yet *)

NoValidation == [success |-> FALSE, errors |-> << >>, warnings |-> << >>]
NoDocument == [success |-> FALSE, kind |-> "unset"]
NoClassification == [success |-> FALSE, isConfident |-> FALSE, method |-> "unset"]
NoRisk == [success |-> FALSE, riskLevel |-> "unknown", fallback |-> FALSE]
NoAI == [success |-> FALSE, aiConfidence |-> 0, fallback |-> FALSE]
NoResult ==
  [overallScore |-> 0, overallRating |-> "none", completeness |-> 0,
   reliability |-> 0]
NoReturn ==
  [success |-> FALSE, error |-> "none", failedStage |-> "none",
   hasResult |-> FALSE, result |-> NoResult, stages |-> << >>,
   warnings |-> << >>]

\* A call that has not been made (or whose result the caller has dropped).
IdleRun ==
  [pc |-> "idle", file |-> "none", policyData |-> "absent",
   progressCallback |-> FALSE,
   validationResult |-> NoValidation, documentResult |-> NoDocument,
   classificationResult |-> NoClassification, riskResult |-> NoRisk,
   aiResult |-> NoAI, events |-> << >>, ret |-> NoReturn,
   failed |-> {}, pushed |-> << >>, threwAt |-> "none"]

----------------------------------------------------------------------------
(* Callers and collaborators *)

\* Everything a caller can pass and a collaborator can answer.
\*   files:      no file; a file validateFileUpload accepts; one it accepts
\*               with a warning (under 1000 bytes); one it rejects
\*   policyData: argument omitted; {}; manual fields with policy number and
\*               provider; manual fields lacking them
\*   document:   documentProcessor.processDocument resolves with success,
\*               resolves with success=false, or rejects
\*   classifier: policyClassifier.classifyPolicy returns a confident result,
\*               an unconfident one, success=false, or throws
\*   risk:       riskEngine.analyzeRisks resolves with a risk level,
\*               resolves with success=false, or rejects
\*   ai:         generateEnhancedAnalysis rejects, or resolves with a response
\*               text about which calculateAIConfidence finds: it is short, it
\*               lacks 'recommendation', 'risk', 'coverage', it is generic
\*   observerThrows: whether the caller's progress callback can throw
AnyEnv ==
  [files |-> {"none", "valid", "small", "invalid"},
   policyData |-> {"absent", "empty", "complete", "incomplete"},
   callbacks |-> BOOLEAN,
   document |-> {"ok", "fail", "throw"},
   classifier |-> {"confident", "unconfident", "fail", "throw"},
   risk |-> {"fail", "throw", "minimal", "low", "medium", "high", "critical"},
   ai |-> { [rejects |-> TRUE, findings |-> << FALSE, FALSE, FALSE, FALSE, FALSE >>] }
          \cup
          { [rejects |-> FALSE,
             findings |-> << short, noRec, noRisk, noCov, generic >>] :
              short \in BOOLEAN, noRec \in BOOLEAN, noRisk \in BOOLEAN,
              noCov \in BOOLEAN, generic \in BOOLEAN },
   observerThrows |-> BOOLEAN]

\* The configuration used when calls overlap: valid arguments, no observer,
\* a document stage and an enrichment stage that may each fail.
OverlapEnv ==
  [files |-> {"valid"},
   policyData |-> {"complete"},
   callbacks |-> {FALSE},
   document |-> {"ok", "fail"},
   classifier |-> {"confident"},
   risk |-> {"high"},
   ai |-> { [rejects |-> b, findings |-> << FALSE, FALSE, FALSE, FALSE, FALSE >>] :
              b \in BOOLEAN },
   observerThrows |-> {FALSE}]

----------------------------------------------------------------------------
(* src/src/utils/riskScoring.js (validation utilities) *)

\* validateFileUpload(file): size, mime type, name and extension checks
validateFileUpload(file) ==
  [isValid |-> file # "invalid",
   errors |-> IF file = "invalid" THEN << "File type is not supported" >> ELSE << >>,
   warnings |-> IF file = "small"
                THEN << "File is very small and may not contain sufficient data" >>
                ELSE << >>]

\* validatePolicyData(policyData, type): policy number and provider are required
validatePolicyData(policyData) ==
  [isValid |-> policyData # "incomplete",
   errors |-> IF policyData = "incomplete"
              THEN << "Policy number is required", "Insurance provider is required" >>
              ELSE << >>,
   warnings |-> << >>]

\* Object.keys(policyData).length, with executeAnalysis's default policyData = {}
PolicyDataKeys(policyData) ==
  IF policyData \in {"absent", "empty"} THEN 0 ELSE 3

----------------------------------------------------------------------------
(* AnalysisPipeline: pure methods *)

\* validateInputs without its last check ("must have either file or policy data")
validateInputs_noInputCheck(file, policyData) ==
  LET fv == validateFileUpload(file)
      pv == validatePolicyData(policyData)
      hasFile == file # "none"
      hasData == PolicyDataKeys(policyData) > 0
      e1 == IF hasFile /\ ~fv.isValid THEN fv.errors ELSE << >>
      w1 == IF hasFile THEN fv.warnings ELSE << >>
      w2 == IF hasData /\ ~pv.isValid THEN pv.errors ELSE << >>
      w3 == IF hasData THEN pv.warnings ELSE << >>
  IN [success |-> Len(e1) = 0, errors |-> e1, warnings |-> w1 \o w2 \o w3]

\* validateInputs(file, policyData, userProfile)
validateInputs(file, policyData) ==
  LET fv == validateFileUpload(file)
      pv == validatePolicyData(policyData)
      hasFile == file # "none"
      hasData == PolicyDataKeys(policyData) > 0
      e1 == IF hasFile /\ ~fv.isValid THEN fv.errors ELSE << >>
      w1 == IF hasFile THEN fv.warnings ELSE << >>
      w2 == IF hasData /\ ~pv.isValid THEN pv.errors ELSE << >>
      w3 == IF hasData THEN pv.warnings ELSE << >>
      e2 == IF ~hasFile /\ ~hasData
            THEN << "Either a policy document file or manual policy data must be provided" >>
            ELSE << >>
      errs == e1 \o e2
  IN [success |-> Len(errs) = 0, errors |-> errs, warnings |-> w1 \o w2 \o w3]

\* calculateOverallProgress(): the keys of this.stageProgress over the stages
calculateOverallProgress(sp) ==
  Round(Cardinality(DOMAIN sp) * 100, Len(stages))

\* The entry updateProgress stores under `stage`; `by` identifies the call that
\* wrote it (in the code: its message and timestamp).
ProgressEntry(progress, r) == [progress |-> progress, by |-> r]

Put(sp, stage, entry) ==
  [s \in DOMAIN sp \cup {stage} |-> IF s = stage THEN entry ELSE sp[s]]

\* updateProgress(stage, progress, message, callback) applied to the first n
\* of the (stage, progress) pairs `evs`: the resulting this.stageProgress
RECURSIVE updateProgress(_, _, _, _)
updateProgress(sp, evs, n, r) ==
  IF n = 0 THEN sp
  ELSE Put(updateProgress(sp, evs, n - 1, r), evs[n][1],
           ProgressEntry(evs[n][2], r))

\* ... and the events handed to the callback by those n calls
ProgressEvents(sp, evs, n, r) ==
  [i \in 1..n |->
     [stage |-> evs[i][1], progress |-> evs[i][2],
      overallProgress |-> calculateOverallProgress(updateProgress(sp, evs, i, r))]]

\* src/src/services/riskAnalyzers/deductibleAnalyzer.js (aiService):
\* calculateAIConfidence(analysis, policy)
calculateAIConfidence(f) ==
  Max(0, Min(100,
    100 - (IF f[1] THEN 20 ELSE 0) - (IF f[2] THEN 15 ELSE 0)
        - (IF f[3] THEN 10 ELSE 0) - (IF f[4] THEN 10 ELSE 0)
        - (IF f[5] THEN 5 ELSE 0)))

\* createFallbackRiskAnalysis(policyType)
createFallbackRiskAnalysis ==
  [success |-> TRUE, overallRiskScore |-> 50, riskLevel |-> "medium",
   riskFactors |-> << [id |-> "fallback-risk", title |-> "Analysis Incomplete",
                       severity |-> "medium", category |-> "general"] >>,
   fallback |-> TRUE]

\* createFallbackAIAnalysis(policyType, riskResult)
createFallbackAIAnalysis ==
  [success |-> TRUE, aiConfidence |-> 25, fallback |-> TRUE]

\* calculateOverallScore: riskAdjustment[riskResult.riskLevel] || 0
riskAdjustment(riskLevel) ==
  CASE riskLevel = "minimal" -> 10
    [] riskLevel = "low" -> 5
    [] riskLevel = "medium" -> 0
    [] riskLevel = "high" -> -10
    [] riskLevel = "critical" -> -20
    [] OTHER -> 0

\* calculateOverallScore(riskResult, aiResult); the sum is kept in tenths
\* because (aiConfidence - 50) / 10 is a fraction
calculateOverallScore(riskResult, aiResult) ==
  LET base == 750
      afterRisk == IF riskResult.success
                   THEN base + 10 * riskAdjustment(riskResult.riskLevel)
                   ELSE base
      score == IF aiResult.success /\ aiResult.aiConfidence # 0
               THEN afterRisk + (aiResult.aiConfidence - 50)
               ELSE afterRisk
  IN Max(0, Min(100, Round(score, 10)))

\* calculateOverallRating(score)
calculateOverallRating(score) ==
  CASE score >= 90 -> "A+"
    [] score >= 85 -> "A"
    [] score >= 80 -> "B+"
    [] score >= 75 -> "B"
    [] score >= 70 -> "C+"
    [] score >= 65 -> "C"
    [] score >= 60 -> "D+"
    [] score >= 55 -> "D"
    [] OTHER -> "F"

\* calculateCompleteness(documentResult, classificationResult, riskResult, aiResult)
calculateCompleteness(documentResult, classificationResult, riskResult, aiResult) ==
  SumSeq(<< IF documentResult.success THEN 25 ELSE 0,
            IF classificationResult.success /\ classificationResult.isConfident
            THEN 25 ELSE 0,
            IF riskResult.success THEN 25 ELSE 0,
            IF aiResult.success THEN 25 ELSE 0 >>)

\* calculateReliability(documentResult, classificationResult, riskResult)
calculateReliability(documentResult, classificationResult, riskResult) ==
  Max(0, 100 - SumSeq(<< IF ~documentResult.success THEN 30 ELSE 0,
                         IF ~classificationResult.isConfident THEN 20 ELSE 0,
                         IF ~riskResult.success THEN 25 ELSE 0 >>))

\* compileResults(...): the metrics of the ComprehensiveAnalysisResult
compileResults(documentResult, classificationResult, riskResult, aiResult) ==
  LET score == calculateOverallScore(riskResult, aiResult)
  IN [overallScore |-> score,
      overallRating |-> calculateOverallRating(score),
      completeness |-> calculateCompleteness(documentResult,
                         classificationResult, riskResult, aiResult),
      reliability |-> calculateReliability(documentResult,
                         classificationResult, riskResult)]

----------------------------------------------------------------------------
(* AnalysisPipeline: the stage methods, as what they do with the way their
   collaborator ended. `thrown` tells whether the method itself throws (rejects) *)

\* The entries the stage methods push to this.warnings; `from` identifies the
\* call that pushed it (in the code: the error text of that call's collaborator).
Warning(stage, text, r) == [stage |-> stage, text |-> text, from |-> r]

\* processDocument(file), after documentProcessor.processDocument has settled
processDocument(o, r) ==
  IF o = "fail"
  THEN [thrown |-> FALSE,
        value |-> [success |-> TRUE, kind |-> "processingWarning"],
        warnings |-> << Warning("document_processing", "Document processing warning", r) >>]
  ELSE IF o = "throw"
  THEN [thrown |-> FALSE,
        value |-> [success |-> TRUE, kind |-> "processingError"],
        warnings |-> << Warning("document_processing", "Document processing failed", r) >>]
  ELSE [thrown |-> FALSE,
        value |-> [success |-> TRUE, kind |-> "processed"],
        warnings |-> << >>]

\* classifyPolicy(documentResult, policyData)
classifyPolicy(o, r) ==
  IF o = "fail"
  THEN [thrown |-> FALSE,
        value |-> [success |-> TRUE, isConfident |-> FALSE, method |-> "fallback"],
        warnings |-> << Warning("policy_classification", "Policy classification warning", r) >>]
  ELSE IF o = "throw"
  THEN [thrown |-> FALSE,
        value |-> [success |-> TRUE, isConfident |-> FALSE, method |-> "error-fallback"],
        warnings |-> << Warning("policy_classification", "Policy classification failed", r) >>]
  ELSE [thrown |-> FALSE,
        value |-> [success |-> TRUE, isConfident |-> (o = "confident"),
                   method |-> "keyword-pattern-matching"],
        warnings |-> << >>]

\* analyzeRisks(documentResult, classificationResult, userProfile), after
\* riskEngine.analyzeRisks has settled
analyzeRisks(o, r) ==
  IF o = "fail"
  THEN [thrown |-> FALSE, value |-> createFallbackRiskAnalysis,
        warnings |-> << Warning("risk_analysis", "Risk analysis warning", r) >>]
  ELSE IF o = "throw"
  THEN [thrown |-> FALSE, value |-> createFallbackRiskAnalysis,
        warnings |-> << Warning("risk_analysis", "Risk analysis failed", r) >>]
  ELSE [thrown |-> FALSE,
        value |-> [success |-> TRUE, riskLevel |-> o, fallback |-> FALSE],
        warnings |-> << >>]

\* generateAIAnalysis without its try/catch: a rejected enrichment call rejects it
generateAIAnalysis_uncaught(o, r) ==
  IF o.rejects
  THEN [thrown |-> TRUE, value |-> NoAI, warnings |-> << >>]
  ELSE [thrown |-> FALSE,
        value |-> [success |-> TRUE,
                   aiConfidence |-> calculateAIConfidence(o.findings),
                   fallback |-> FALSE],
        warnings |-> << >>]

\* generateAIAnalysis(...), after generateEnhancedAnalysis has settled
generateAIAnalysis(o, r) ==
  IF o.rejects
  THEN [thrown |-> FALSE, value |-> createFallbackAIAnalysis,
        warnings |-> << Warning("ai_analysis", "AI analysis failed", r) >>]
  ELSE [thrown |-> FALSE,
        value |-> [success |-> TRUE,
                   aiConfidence |-> calculateAIConfidence(o.findings),
                   fallback |-> FALSE],
        warnings |-> << >>]

----------------------------------------------------------------------------
(* AnalysisPipeline.executeAnalysis *)

\* executeAnalysis announcing the risk analysis before the classification is
\* reported complete
ProgressCalls_riskEarly(pc) ==
  CASE pc = "idle" -> << << "validation", 0 >> >>
    [] pc = "validating" ->
         << << "validation", 100 >>, << "document_processing", 0 >> >>
    [] pc = "document_returned" ->
         << << "document_processing", 100 >>, << "policy_classification", 0 >> >>
    [] pc = "classified" ->
         << << "risk_analysis", 0 >>, << "policy_classification", 100 >> >>
    [] pc = "risk_returned" ->
         << << "risk_analysis", 100 >>, << "ai_analysis", 0 >> >>
    [] pc = "ai_returned" ->
         << << "ai_analysis", 100 >>, << "result_compilation", 0 >> >>
    [] pc = "compiled" -> << << "result_compilation", 100 >> >>
    [] OTHER -> << >>

\* The updateProgress calls executeAnalysis makes when it resumes at `pc`.
ProgressCalls(pc) ==
  CASE pc = "idle" -> << << "validation", 0 >> >>
    [] pc = "validating" ->
         << << "validation", 100 >>, << "document_processing", 0 >> >>
    [] pc = "document_returned" ->
         << << "document_processing", 100 >>, << "policy_classification", 0 >> >>
    [] pc = "classified" ->
         << << "policy_classification", 100 >>, << "risk_analysis", 0 >> >>
    [] pc = "risk_returned" ->
         << << "risk_analysis", 100 >>, << "ai_analysis", 0 >> >>
    [] pc = "ai_returned" ->
         << << "ai_analysis", 100 >>, << "result_compilation", 0 >> >>
    [] pc = "compiled" -> << << "result_compilation", 100 >> >>
    [] OTHER -> << >>

\* The updateProgress call at which the callback throws: 0 for none.
Throws(callback, evs) ==
  IF callback /\ TRUE \in env.observerThrows THEN 0..Len(evs) ELSE {0}

\* The number of updateProgress calls made before the piece is left.
Calls(evs, t) == IF t = 0 THEN Len(evs) ELSE t

\* The events the callback of a call has received after a piece.
Seen(me, sp, evs, t, r) ==
  IF me.progressCallback
  THEN me.events \o ProgressEvents(sp, evs, Calls(evs, t), r)
  ELSE me.events

\* executeAnalysis: the catch block and its return value. `at` is the stage
\* that was executing when the error was thrown.
catchReturn(me, sp, w, error, at) ==
  [me EXCEPT
     !.pc = "done",
     !.threwAt = at,
     !.ret = [success |-> FALSE, error |-> error,
              failedStage |-> stages[currentStage + 1],
              hasResult |-> FALSE, result |-> NoResult,
              stages |-> sp, warnings |-> w]]

\* executeAnalysis up to its first await: reset(), the first progress event,
\* and validateInputs (which has no await of its own)
Start(r) ==
  /\ run[r].pc = "idle"
  /\ \E file \in env.files, policyData \in env.policyData, cb \in env.callbacks :
       LET evs == ProgressCalls("idle")
       IN \E t \in Throws(cb, evs) :
            LET sp == updateProgress(<< >>, evs, Calls(evs, t), r)
                me == [IdleRun EXCEPT !.file = file, !.policyData = policyData,
                                      !.progressCallback = cb]
                me2 == [me EXCEPT !.events = Seen(me, << >>, evs, t, r)]
            IN /\ currentStage' = 0
               /\ errors' = << >>
               /\ warnings' = << >>
               /\ stageProgress' = sp
               /\ run' = [run EXCEPT ![r] =
                    IF t > 0
                    THEN catchReturn(me2, sp, << >>, "callback", evs[t][1])
                    ELSE [me2 EXCEPT
                            !.pc = "validating",
                            !.validationResult = validateInputs(file, policyData)]]
  /\ UNCHANGED env

\* from the validation result to the await of processDocument
Validated(r) ==
  /\ run[r].pc = "validating"
  /\ LET me == run[r]
         ok == me.validationResult.success
         evs == IF ok THEN ProgressCalls("validating") ELSE << >>
     IN \E t \in Throws(me.progressCallback, evs) :
          LET sp == updateProgress(stageProgress, evs, Calls(evs, t), r)
              me2 == [me EXCEPT !.events = Seen(me, stageProgress, evs, t, r)]
          IN /\ stageProgress' = sp
             /\ run' = [run EXCEPT ![r] =
                  IF ~ok
                  THEN catchReturn(me2, sp, warnings, "Validation failed", "validation")
                  ELSE IF t > 0
                  THEN catchReturn(me2, sp, warnings, "callback", evs[t][1])
                  ELSE IF me.file = "none"
                  THEN [me2 EXCEPT
                          !.pc = "document_returned",
                          !.documentResult = [success |-> FALSE, kind |-> "nofile"]]
                  ELSE [me2 EXCEPT !.pc = "document_processing"]]
  /\ UNCHANGED << currentStage, errors, warnings, env >>

\* processDocument resumes when documentProcessor.processDocument has settled
DocumentProcessed(r) ==
  /\ run[r].pc = "document_processing"
  /\ \E o \in env.document :
       LET m == processDocument(o, r)
           me == [run[r] EXCEPT
                    !.pushed = @ \o m.warnings,
                    !.failed = IF o = "ok" THEN @ ELSE @ \cup {"document_processing"}]
           w == warnings \o m.warnings
       IN /\ warnings' = w
          /\ run' = [run EXCEPT ![r] =
               IF m.thrown
               THEN catchReturn(me, stageProgress, w, "document", "document_processing")
               ELSE [me EXCEPT !.pc = "document_returned",
                               !.documentResult = m.value]]
  /\ UNCHANGED << currentStage, stageProgress, errors, env >>

\* from the document result to the await of classifyPolicy (which has no await
\* of its own: the classifier is synchronous)
Classified(r) ==
  /\ run[r].pc = "document_returned"
  /\ LET me == run[r]
         evs == ProgressCalls("document_returned")
     IN \E t \in Throws(me.progressCallback, evs), o \in env.classifier :
          LET sp == updateProgress(stageProgress, evs, Calls(evs, t), r)
              me2 == [me EXCEPT !.events = Seen(me, stageProgress, evs, t, r)]
              m == classifyPolicy(o, r)
              me3 == [me2 EXCEPT
                        !.pushed = @ \o m.warnings,
                        !.failed = IF o \in {"fail", "throw"}
                                   THEN @ \cup {"policy_classification"} ELSE @]
              w == warnings \o m.warnings
          IN /\ stageProgress' = sp
             /\ warnings' = IF t > 0 THEN warnings ELSE w
             /\ run' = [run EXCEPT ![r] =
                  IF t > 0
                  THEN catchReturn(me2, sp, warnings, "callback", evs[t][1])
                  ELSE IF m.thrown
                  THEN catchReturn(me3, sp, w, "classification", "policy_classification")
                  ELSE [me3 EXCEPT !.pc = "classified",
                                   !.classificationResult = m.value]]
  /\ UNCHANGED << currentStage, errors, env >>

\* from the classification to the await inside analyzeRisks
RiskStarted(r) ==
  /\ run[r].pc = "classified"
  /\ LET me == run[r]
         evs == ProgressCalls("classified")
     IN \E t \in Throws(me.progressCallback, evs) :
          LET sp == updateProgress(stageProgress, evs, Calls(evs, t), r)
              me2 == [me EXCEPT !.events = Seen(me, stageProgress, evs, t, r)]
          IN /\ stageProgress' = sp
             /\ run' = [run EXCEPT ![r] =
                  IF t > 0
                  THEN catchReturn(me2, sp, warnings, "callback", evs[t][1])
                  ELSE [me2 EXCEPT !.pc = "risk_analysis"]]
  /\ UNCHANGED << currentStage, errors, warnings, env >>

\* analyzeRisks resumes when riskEngine.analyzeRisks has settled
RiskAnalyzed(r) ==
  /\ run[r].pc = "risk_analysis"
  /\ \E o \in env.risk :
       LET m == analyzeRisks(o, r)
           me == [run[r] EXCEPT
                    !.pushed = @ \o m.warnings,
                    !.failed = IF o \in {"fail", "throw"}
                               THEN @ \cup {"risk_analysis"} ELSE @]
           w == warnings \o m.warnings
       IN /\ warnings' = w
          /\ run' = [run EXCEPT ![r] =
               IF m.thrown
               THEN catchReturn(me, stageProgress, w, "risk", "risk_analysis")
               ELSE [me EXCEPT !.pc = "risk_returned", !.riskResult = m.value]]
  /\ UNCHANGED << currentStage, stageProgress, errors, env >>

\* from the risk result to the await inside generateAIAnalysis
AIStarted(r) ==
  /\ run[r].pc = "risk_returned"
  /\ LET me == run[r]
         evs == ProgressCalls("risk_returned")
     IN \E t \in Throws(me.progressCallback, evs) :
          LET sp == updateProgress(stageProgress, evs, Calls(evs, t), r)
              me2 == [me EXCEPT !.events = Seen(me, stageProgress, evs, t, r)]
          IN /\ stageProgress' = sp
             /\ run' = [run EXCEPT ![r] =
                  IF t > 0
                  THEN catchReturn(me2, sp, warnings, "callback", evs[t][1])
                  ELSE [me2 EXCEPT !.pc = "ai_analysis"]]
  /\ UNCHANGED << currentStage, errors, warnings, env >>

\* generateAIAnalysis resumes when generateEnhancedAnalysis has settled
AIAnalyzed(r) ==
  /\ run[r].pc = "ai_analysis"
  /\ \E o \in env.ai :
       LET m == generateAIAnalysis(o, r)
           me == [run[r] EXCEPT
                    !.pushed = @ \o m.warnings,
                    !.failed = IF o.rejects THEN @ \cup {"ai_analysis"} ELSE @]
           w == warnings \o m.warnings
       IN /\ warnings' = w
          /\ run' = [run EXCEPT ![r] =
               IF m.thrown
               THEN catchReturn(me, stageProgress, w, "ai", "ai_analysis")
               ELSE [me EXCEPT !.pc = "ai_returned", !.aiResult = m.value]]
  /\ UNCHANGED << currentStage, stageProgress, errors, env >>

\* from the enrichment result to the await of compileResults (which has no
\* await of its own)
Compiled(r) ==
  /\ run[r].pc = "ai_returned"
  /\ LET me == run[r]
         evs == ProgressCalls("ai_returned")
     IN \E t \in Throws(me.progressCallback, evs) :
          LET sp == updateProgress(stageProgress, evs, Calls(evs, t), r)
              me2 == [me EXCEPT !.events = Seen(me, stageProgress, evs, t, r)]
          IN /\ stageProgress' = sp
             /\ run' = [run EXCEPT ![r] =
                  IF t > 0
                  THEN catchReturn(me2, sp, warnings, "callback", evs[t][1])
                  ELSE [me2 EXCEPT
                          !.pc = "compiled",
                          !.ret = [@ EXCEPT !.result =
                             compileResults(me.documentResult, me.classificationResult,
                                            me.riskResult, me.aiResult)]]]
  /\ UNCHANGED << currentStage, errors, warnings, env >>

\* the last progress event and the return of executeAnalysis
Returned(r) ==
  /\ run[r].pc = "compiled"
  /\ LET me == run[r]
         evs == ProgressCalls("compiled")
     IN \E t \in Throws(me.progressCallback, evs) :
          LET sp == updateProgress(stageProgress, evs, Calls(evs, t), r)
              me2 == [me EXCEPT !.events = Seen(me, stageProgress, evs, t, r)]
          IN /\ stageProgress' = sp
             /\ run' = [run EXCEPT ![r] =
                  IF t > 0
                  THEN catchReturn(me2, sp, warnings, "callback", evs[t][1])
                  ELSE [me2 EXCEPT
                          !.pc = "done",
                          !.ret = [success |-> TRUE, error |-> "none",
                                   failedStage |-> "none", hasResult |-> TRUE,
                                   result |-> me.ret.result,
                                   stages |-> sp, warnings |-> warnings]]]
  /\ UNCHANGED << currentStage, errors, warnings, env >>

\* The caller has used the returned object and drops it.
Discard(r) ==
  /\ run[r].pc = "done"
  /\ run' = [run EXCEPT ![r] = IdleRun]
  /\ UNCHANGED << currentStage, stageProgress, errors, warnings, env >>

\* A step of call r after its start.
Resume(r) ==
  \/ Validated(r)
  \/ DocumentProcessed(r)
  \/ Classified(r)
  \/ RiskStarted(r)
  \/ RiskAnalyzed(r)
  \/ AIStarted(r)
  \/ AIAnalyzed(r)
  \/ Compiled(r)
  \/ Returned(r)

----------------------------------------------------------------------------
(* Risk scoring: src/src/utils/riskScoring.js *)

\* The severities of a risk factor, lowest first (severityOrder)
severityOrder == << "minimal", "low", "medium", "high", "critical" >>

SeverityRank(severity) ==
  CHOOSE i \in 1..Len(severityOrder) : severityOrder[i] = severity

\* severityWeights with the weights of 'high' and 'medium' exchanged
severityWeights_highBelowMedium(severity) ==
  CASE severity = "critical" -> 25
    [] severity = "high" -> 15
    [] severity = "medium" -> 20
    [] severity = "low" -> 10
    [] severity = "minimal" -> 5
    [] OTHER -> 10

\* calculateRiskScore: severityWeights[risk.severity] || 10
severityWeights(severity) ==
  CASE severity = "critical" -> 25
    [] severity = "high" -> 20
    [] severity = "medium" -> 15
    [] severity = "low" -> 10
    [] severity = "minimal" -> 5
    [] OTHER -> 10

\* calculateRiskScore: categoryMultipliers[risk.category] || 1.0, in tenths
categoryMultipliers(category) ==
  CASE category = "coverage_gaps" -> 12
    [] category = "liability_limits" -> 11
    [] category = "deductible_risks" -> 9
    [] category = "policy_terms" -> 8
    [] category = "compliance" -> 13
    [] category = "financial_risk" -> 11
    [] category = "opportunity" -> 5
    [] OTHER -> 10

\* calculateRiskScore: totalScore after the loop, in tenths
RECURSIVE totalScore(_)
totalScore(riskFactors) ==
  IF riskFactors = << >> THEN 0
  ELSE severityWeights(Head(riskFactors).severity)
         * categoryMultipliers(Head(riskFactors).category)
       + totalScore(Tail(riskFactors))

\* calculateRiskScore: maxPossibleScore after the loop, in tenths
\* (severityWeights.critical * 1.3 added once per risk factor)
maxPossibleScore(riskFactors) == Len(riskFactors) * severityWeights("critical") * 13

\* calculateRiskScore with a normalizer that is added once, not once per factor
calculateRiskScore_fixedNormalizer(riskFactors) ==
  IF Len(riskFactors) = 0 THEN 0
  ELSE Min(100, Max(0, Round(100 * totalScore(riskFactors),
                             severityWeights("critical") * 13)))

\* calculateRiskScore(riskFactors)
calculateRiskScore(riskFactors) ==
  IF Len(riskFactors) = 0 THEN 0
  ELSE IF maxPossibleScore(riskFactors) = 0 THEN 0
  ELSE Min(100, Max(0, Round(100 * totalScore(riskFactors),
                             maxPossibleScore(riskFactors))))

\* The categories a risk factor may carry: the keys of categoryMultipliers,
\* 'optimization' (RiskEngine.findOpportunities) and 'general' (the default of
\* RiskEngine.aggregateResults)
Categories ==
  { "coverage_gaps", "liability_limits", "deductible_risks", "policy_terms",
    "compliance", "financial_risk", "opportunity", "optimization", "general" }

ScoredFactors ==
  [ severity : { severityOrder[i] : i \in 1..Len(severityOrder) },
    category : Categories ]

\* The longest list of risk factors that is scored
MaxFactors == 2

IdleScoring == [pc |-> "idle", riskFactors |-> << >>, score |-> 0, last |-> "none"]

\* a caller holds a list of risk factors (empty, or one factor of any kind)
FactorsDrawn ==
  scoring \in { [pc |-> "drawn", riskFactors |-> l, score |-> 0, last |-> "none"] :
                l \in { << >> } \cup { << f >> : f \in ScoredFactors } }

\* calculateRiskScore(riskFactors) is applied to the list
Scored ==
  /\ scoring.pc = "drawn"
  /\ scoring' = [scoring EXCEPT !.pc = "scored",
                                !.score = calculateRiskScore(scoring.riskFactors)]

\* one more risk factor joins the list and the list is scored again
FactorAdded ==
  /\ scoring.pc = "scored"
  /\ Len(scoring.riskFactors) < MaxFactors
  /\ \E f \in ScoredFactors :
       LET l == Append(scoring.riskFactors, f)
       IN scoring' = [pc |-> "scored", riskFactors |-> l,
                      score |-> calculateRiskScore(l), last |-> "add"]

\* the severity of one risk factor is raised and the list is scored again
SeverityRaised ==
  /\ scoring.pc = "scored"
  /\ \E i \in 1..Len(scoring.riskFactors) :
       \E k \in 1..Len(severityOrder) :
         /\ k > SeverityRank(scoring.riskFactors[i].severity)
         /\ LET l == [scoring.riskFactors EXCEPT ![i].severity = severityOrder[k]]
            IN scoring' = [pc |-> "scored", riskFactors |-> l,
                           score |-> calculateRiskScore(l), last |-> "raise"]

----------------------------------------------------------------------------
(* Policy classifier: src/unnamed/part_003 (services/policyClassifier.js) and
   src/src/utils/policyTypes.js *)

\* String.prototype.includes
Includes(text, keyword) ==
  \E i \in 1..(Len(text) - Len(keyword) + 1) :
    SubSeq(text, i, i + Len(keyword) - 1) = keyword

UpperCase == "ABCDEFGHIJKLMNOPQRSTUVWXYZ"
LowerCase == "abcdefghijklmnopqrstuvwxyz"

UpperLetters == { SubSeq(UpperCase, i, i) : i \in 1..Len(UpperCase) }
LowerLetters == { SubSeq(LowerCase, i, i) : i \in 1..Len(LowerCase) }

\* the lower-case letter of each upper-case letter
LowerOf ==
  [ c \in UpperLetters |->
      LET i == CHOOSE j \in 1..Len(UpperCase) : SubSeq(UpperCase, j, j) = c
      IN SubSeq(LowerCase, i, i) ]

LowerChar(c) == IF c \in UpperLetters THEN LowerOf[c] ELSE c

\* String.prototype.toLowerCase
RECURSIVE toLowerCase(_)
toLowerCase(s) ==
  IF Len(s) <= 1 THEN LowerChar(s)
  ELSE LET half == Len(s) \div 2
       IN toLowerCase(SubSeq(s, 1, half)) \o
          toLowerCase(SubSeq(s, half + 1, Len(s)))

\* POLICY_TYPES, in the order of its keys (label, category and commonCoverages
\* take no part in the classification)
POLICY_TYPES ==
  << [ type |-> "auto",
       requiredKeywords |-> << "auto", "vehicle", "car", "automobile", "motor" >>,
       optionalKeywords |->
         << "liability", "collision", "comprehensive", "uninsured motorist",
            "bodily injury", "property damage", "personal injury protection",
            "medical payments", "rental", "towing", "roadside" >>,
       exclusionKeywords |-> << "home", "house", "property", "life", "health", "business" >>,
       structuredPatterns |->
         [ policyType |-> << "auto", "vehicle", "car", "motor" >>,
           coverageType |-> << "auto", "vehicle", "automobile" >> ] ],
     [ type |-> "home",
       requiredKeywords |-> << "home", "house", "dwelling", "homeowner", "property" >>,
       optionalKeywords |->
         << "structure", "personal property", "liability", "additional living expenses",
            "medical payments", "fire", "theft", "vandalism", "weather",
            "replacement cost", "actual cash value", "deductible" >>,
       exclusionKeywords |-> << "auto", "vehicle", "car", "life", "health", "business" >>,
       structuredPatterns |->
         [ policyType |-> << "home", "homeowner", "dwelling", "property" >>,
           coverageType |-> << "home", "homeowner", "property" >> ] ],
     [ type |-> "renters",
       requiredKeywords |-> << "renter", "tenant", "rental", "apartment" >>,
       optionalKeywords |->
         << "personal property", "liability", "additional living expenses",
            "medical payments", "theft", "fire", "vandalism",
            "replacement cost", "actual cash value" >>,
       exclusionKeywords |-> << "auto", "vehicle", "car", "life", "health", "homeowner" >>,
       structuredPatterns |->
         [ policyType |-> << "renter", "tenant", "rental" >>,
           coverageType |-> << "renter", "tenant" >> ] ],
     [ type |-> "life",
       requiredKeywords |-> << "life", "death", "beneficiary", "mortality" >>,
       optionalKeywords |->
         << "term", "whole", "universal", "variable", "premium",
            "death benefit", "cash value", "rider", "accidental death",
            "disability waiver", "convertible" >>,
       exclusionKeywords |-> << "auto", "vehicle", "home", "property", "health" >>,
       structuredPatterns |->
         [ policyType |-> << "life", "term life", "whole life", "universal life" >>,
           coverageType |-> << "life" >> ] ],
     [ type |-> "health",
       requiredKeywords |-> << "health", "medical", "healthcare", "hmo", "ppo" >>,
       optionalKeywords |->
         << "deductible", "copay", "coinsurance", "out-of-pocket",
            "prescription", "preventive", "emergency", "specialist",
            "network", "provider", "claim", "benefit" >>,
       exclusionKeywords |-> << "auto", "vehicle", "home", "property", "life" >>,
       structuredPatterns |->
         [ policyType |-> << "health", "medical", "hmo", "ppo", "epo" >>,
           coverageType |-> << "health", "medical" >> ] ],
     [ type |-> "disability",
       requiredKeywords |-> << "disability", "income protection", "wage replacement" >>,
       optionalKeywords |->
         << "short term", "long term", "benefit period", "elimination period",
            "partial disability", "residual benefits", "cost of living",
            "own occupation", "any occupation" >>,
       exclusionKeywords |-> << "auto", "vehicle", "home", "property", "life", "health" >>,
       structuredPatterns |->
         [ policyType |-> << "disability", "income protection" >>,
           coverageType |-> << "disability" >> ] ],
     [ type |-> "umbrella",
       requiredKeywords |-> << "umbrella", "excess liability", "personal liability" >>,
       optionalKeywords |->
         << "liability", "coverage", "excess", "additional", "protection",
            "lawsuit", "judgment", "settlement", "defense costs" >>,
       exclusionKeywords |-> << "auto", "vehicle", "home", "life", "health" >>,
       structuredPatterns |->
         [ policyType |-> << "umbrella", "excess liability", "personal liability" >>,
           coverageType |-> << "umbrella", "liability" >> ] ],
     [ type |-> "business",
       requiredKeywords |-> << "business", "commercial", "general liability", "professional" >>,
       optionalKeywords |->
         << "property", "liability", "workers compensation", "cyber",
            "errors and omissions", "directors and officers", "employment practices",
            "business interruption", "equipment", "inventory" >>,
       exclusionKeywords |-> << "personal", "individual", "family" >>,
       structuredPatterns |->
         [ policyType |-> << "business", "commercial", "general liability" >>,
           coverageType |-> << "business", "commercial" >> ] ] >>

\* A confidence of 1.0: confidences are kept in units that make every score of
\* calculateTypeScore exact (weights in tenths, 3..5 required and 9..12 optional
\* keywords, 2 structured patterns, total weight 0.7 or 1.0)
One == 19800 * 7

\* PolicyClassifier.constructor: this.confidenceThreshold = 0.6
confidenceThreshold == (One * 6) \div 10

\* keywords.filter(keyword => text.includes(keyword.toLowerCase())).length
KeywordMatches(keywords, text) ==
  Cardinality({ i \in 1..Len(keywords) : Includes(text, toLowerCase(keywords[i])) })

\* JavaScript truthiness of a structured field
Truthy(value) ==
  \/ value.t = "string" /\ value.v # ""
  \/ value.t = "number" /\ value.v # 0

\* matchesPattern(value, pattern) for a pattern that is an array of strings:
\* value.toLowerCase() is a TypeError when value is not a string
matchesPattern(value, pattern) ==
  IF value.t # "string" THEN [threw |-> TRUE, matches |-> FALSE]
  ELSE [threw |-> FALSE,
        matches |-> \E i \in 1..Len(pattern) :
                      Includes(toLowerCase(value.v), toLowerCase(pattern[i]))]

\* checkStructuredPatterns(structuredData, patterns)
checkStructuredPatterns(structuredData, patterns) ==
  LET fields == DOMAIN patterns
      tested == { f \in fields : Truthy(structuredData[f]) }
  IN [ threw |-> \E f \in tested : matchesPattern(structuredData[f], patterns[f]).threw,
       matches |-> Cardinality({ f \in tested :
                                   matchesPattern(structuredData[f], patterns[f]).matches }),
       totalPatterns |-> Cardinality(fields) ]

\* calculateTypeScore(text, structuredData, typeConfig)
calculateTypeScore(text, structuredData, typeConfig) ==
  LET required == KeywordMatches(typeConfig.requiredKeywords, text)
      optional == KeywordMatches(typeConfig.optionalKeywords, text)
      exclusion == KeywordMatches(typeConfig.exclusionKeywords, text)
      structured == structuredData.t # "null"
      patterns == checkStructuredPatterns(structuredData, typeConfig.structuredPatterns)
      score ==
        (One * 4 * required) \div (10 * Len(typeConfig.requiredKeywords))
        + (One * 3 * Min(optional, Len(typeConfig.optionalKeywords)))
            \div (10 * Len(typeConfig.optionalKeywords))
        - (IF exclusion > 0 THEN (One * 2) \div 10 ELSE 0)
        + (IF structured
           THEN (One * 3 * patterns.matches) \div (10 * patterns.totalPatterns)
           ELSE 0)
      totalWeight == 4 + 3 + (IF structured THEN 3 ELSE 0)
  IN [ threw |-> structured /\ patterns.threw,
       score |-> Max(0, Min(One, (score * 10) \div totalWeight)) ]

\* classifications.sort((a, b) => b.confidence - a.confidence): stable, descending
RECURSIVE SortByConfidence(_)
SortByConfidence(classifications) ==
  IF Len(classifications) <= 1 THEN classifications
  ELSE LET n == Len(classifications)
           last == classifications[n]
           front == SortByConfidence(SubSeq(classifications, 1, n - 1))
           keep == Cardinality({ i \in 1..(n - 1) : front[i].confidence >= last.confidence })
       IN SubSeq(front, 1, keep) \o << last >> \o SubSeq(front, keep + 1, n - 1)

\* the object of the catch block of classifyPolicy
classificationFailed ==
  [ success |-> FALSE, raised |-> FALSE, primaryType |-> "unknown",
    confidence |-> 0, isConfident |-> "false" ]

\* structuredData = {} (the default of the parameter)
EmptyStructuredData ==
  [ t |-> "object", policyType |-> [t |-> "undefined"],
    coverageType |-> [t |-> "undefined"] ]

\* classifyPolicy that reports the top-ranked type whatever its confidence
PolicyClassifier_classifyPolicy_noThreshold(text, structuredData) ==
  IF text.t # "string" THEN classificationFailed
  ELSE
    LET normalizedText == toLowerCase(text.v)
        data == IF structuredData.t = "undefined" THEN EmptyStructuredData
                ELSE structuredData
        scores == [ i \in 1..Len(POLICY_TYPES) |->
                      calculateTypeScore(normalizedText, data, POLICY_TYPES[i]) ]
        found == SelectSeq([ i \in 1..Len(POLICY_TYPES) |->
                             [type |-> POLICY_TYPES[i].type, confidence |-> scores[i].score] ],
                           LAMBDA c : c.confidence > 0)
        classifications == SortByConfidence(found)
    IN IF \E i \in 1..Len(POLICY_TYPES) : scores[i].threw THEN classificationFailed
       ELSE [ success |-> TRUE, raised |-> FALSE,
              primaryType |-> IF classifications # << >> THEN classifications[1].type
                              ELSE "unknown",
              confidence |-> IF classifications # << >> THEN classifications[1].confidence
                             ELSE 0,
              isConfident |-> IF classifications = << >> THEN "undefined"
                              ELSE IF classifications[1].confidence >= confidenceThreshold
                              THEN "true" ELSE "false",
              allClassifications |-> classifications,
              suggestedTypes |-> SubSeq(classifications, 1, Min(3, Len(classifications))) ]

\* classifyPolicy without its try/catch: an exception leaves the method
PolicyClassifier_classifyPolicy_uncaught(text, structuredData) ==
  LET r == PolicyClassifier_classifyPolicy_noThreshold(text, structuredData)
  IN IF r.success
     THEN [r EXCEPT !.primaryType = IF r.isConfident = "true" THEN @ ELSE "unknown"]
     ELSE [r EXCEPT !.raised = TRUE]

\* PolicyClassifier.classifyPolicy(text, structuredData = {})
PolicyClassifier_classifyPolicy(text, structuredData) ==
  IF text.t # "string" THEN classificationFailed
  ELSE
    LET normalizedText == toLowerCase(text.v)
        data == IF structuredData.t = "undefined" THEN EmptyStructuredData
                ELSE structuredData
        scores == [ i \in 1..Len(POLICY_TYPES) |->
                      calculateTypeScore(normalizedText, data, POLICY_TYPES[i]) ]
        found == SelectSeq([ i \in 1..Len(POLICY_TYPES) |->
                             [type |-> POLICY_TYPES[i].type, confidence |-> scores[i].score] ],
                           LAMBDA c : c.confidence > 0)
        classifications == SortByConfidence(found)
        isConfident == IF classifications = << >> THEN "undefined"
                       ELSE IF classifications[1].confidence >= confidenceThreshold
                       THEN "true" ELSE "false"
    IN IF \E i \in 1..Len(POLICY_TYPES) : scores[i].threw THEN classificationFailed
       ELSE [ success |-> TRUE, raised |-> FALSE,
              primaryType |-> IF isConfident = "true" THEN classifications[1].type
                              ELSE "unknown",
              confidence |-> IF classifications # << >> THEN classifications[1].confidence
                             ELSE 0,
              isConfident |-> isConfident,
              allClassifications |-> classifications,
              suggestedTypes |-> SubSeq(classifications, 1, Min(3, Len(classifications))) ]

\* The texts classifyPolicy is called with: a string, or no string at all
ClassifiedTexts ==
  { [t |-> "undefined"] } \cup
  { [t |-> "string", v |-> s] :
      s \in { "",
              "bodily injury liability $25,000",
              "AUTO Vehicle",
              "auto vehicle car automobile motor liability collision comprehensive",
              "auto vehicle car automobile motor liability collision comprehensive uninsured motorist bodily injury medical payments towing roadside",
              "home house dwelling homeowner property fire theft",
              "term life insurance with death benefit for the beneficiary",
              "umbrella excess liability personal liability coverage" } }

\* The values a structured field is given: none, a string, a number
StructuredValues ==
  { [t |-> "undefined"], [t |-> "string", v |-> ""],
    [t |-> "string", v |-> "Auto Insurance"], [t |-> "string", v |-> "home"],
    [t |-> "string", v |-> "n/a"], [t |-> "number", v |-> 0],
    [t |-> "number", v |-> 7] }

\* The structuredData arguments: omitted, null, or an object with the two fields
\* the patterns read
StructuredInputs ==
  { [t |-> "undefined"], [t |-> "null"] } \cup
  { [t |-> "object", policyType |-> p, coverageType |-> c] :
      p \in StructuredValues, c \in StructuredValues }

\* a caller calls classifyPolicy(text, structuredData)
ClassifierCalled ==
  classifier \in { [pc |-> "called", text |-> x, structuredData |-> d,
                    result |-> classificationFailed] :
                   x \in ClassifiedTexts, d \in StructuredInputs }

\* classifyPolicy returns
PolicyClassified ==
  /\ classifier.pc = "called"
  /\ classifier' =
       [classifier EXCEPT
          !.pc = "returned",
          !.result = PolicyClassifier_classifyPolicy(classifier.text,
                                                     classifier.structuredData)]

----------------------------------------------------------------------------
(* Risk engine: values and their parsing *)

\* A JavaScript value of a field: [t |-> "undefined"], [t |-> "number", v |-> n]
\* or [t |-> "string", v |-> s].  Undefined is the value of a missing field.
Undefined == [t |-> "undefined"]
Number(n) == [t |-> "number", v |-> n]
String(s) == [t |-> "string", v |-> s]

\* x || 0 and the comparisons x > n, n >= 0, of a numeric profile field: a
\* missing field counts as 0 (undefined > n is false)
Num(value) == IF value.t = "number" THEN value.v ELSE 0

Digits == "0123456789"

DigitSet == { SubSeq(Digits, i, i) : i \in 1..Len(Digits) }

IsDigit(c) == c \in DigitSet

\* the value of each digit
DigitOf ==
  [ c \in DigitSet |->
      (CHOOSE i \in 1..Len(Digits) : SubSeq(Digits, i, i) = c) - 1 ]

DigitValue(c) == DigitOf[c]

\* str.replace(/[,$]/g, '')
RECURSIVE StripMoney(_)
StripMoney(str) ==
  IF Len(str) = 0 THEN ""
  ELSE LET c == SubSeq(str, 1, 1)
           rest == StripMoney(SubSeq(str, 2, Len(str)))
       IN IF c \in {",", "$"} THEN rest ELSE c \o rest

\* the value of the digits str[1..n], n of them
RECURSIVE DigitsValue(_, _)
DigitsValue(str, n) ==
  IF n = 0 THEN 0
  ELSE 10 * DigitsValue(str, n - 1) + DigitValue(SubSeq(str, n, n))

\* parseInt(str): leading blanks are skipped, the longest prefix of digits is
\* read, and there is no number (NaN) when no digit is read
parseInt(str) ==
  LET blanks == IF \E i \in 1..Len(str) : SubSeq(str, i, i) # " "
                THEN (CHOOSE i \in 1..Len(str) :
                        /\ SubSeq(str, i, i) # " "
                        /\ \A j \in 1..(i - 1) : SubSeq(str, j, j) = " ") - 1
                ELSE Len(str)
      Read(body, n) == [ nan |-> n = 0, v |-> DigitsValue(body, n) ]
      Number_(body) ==
        Read(body, Cardinality({ i \in 1..Len(body) :
                                   \A j \in 1..i : IsDigit(SubSeq(body, j, j)) }))
  IN Number_(SubSeq(str, blanks + 1, Len(str)))

\* parseLimit(limitStr) of CoverageGapAnalyzer and of LiabilityAnalyzer
parseLimit(limitStr) ==
  IF limitStr.t = "number" THEN limitStr.v
  ELSE IF ~Truthy(limitStr) THEN 0
  ELSE LET OrZero(parsed) == IF parsed.nan THEN 0 ELSE parsed.v
       IN OrZero(parseInt(StripMoney(limitStr.v)))

\* DeductibleAnalyzer.parseDeductible(deductibleStr)
parseDeductible(deductibleStr) ==
  IF deductibleStr.t = "number" THEN deductibleStr.v
  ELSE IF ~Truthy(deductibleStr) THEN 0
  ELSE LET OrZero(parsed) == IF parsed.nan THEN 0 ELSE parsed.v
       IN OrZero(parseInt(StripMoney(deductibleStr.v)))

\* the first index at or after from where keyword occurs in text, 0 if none
IndexFrom(text, keyword, from) ==
  LET First(at) == IF at = {} THEN 0 ELSE CHOOSE i \in at : \A j \in at : i <= j
  IN First({ i \in from..(Len(text) - Len(keyword) + 1) :
               SubSeq(text, i, i + Len(keyword) - 1) = keyword })

\* the index after the keywords found one after the other in text, 0 if they
\* are not all found: the part  k1.*k2  of a pattern
RECURSIVE AfterKeywords(_, _, _)
AfterKeywords(text, keywords, from) ==
  IF keywords = << >> THEN from
  ELSE LET Rest(i) ==
             IF i = 0 THEN 0
             ELSE AfterKeywords(text, Tail(keywords), i + Len(Head(keywords)))
       IN Rest(IndexFrom(text, Head(keywords), from))

\* text.match(/k1.*k2.*\$?([0-9,]+)/) on a text of one line: the greedy .*
\* runs to the end and gives back only what the group needs, so the group
\* captures the last character of the text that is a digit or a comma
Match(text, keywords) ==
  LET Candidates(from) ==
        IF from = 0 THEN {}
        ELSE { i \in from..Len(text) :
                 IsDigit(SubSeq(text, i, i)) \/ SubSeq(text, i, i) = "," }
      Group(last) == String(SubSeq(text, last, last))
      Captured(at) ==
        IF at = {} THEN [matched |-> FALSE, group |-> Undefined]
        ELSE [ matched |-> TRUE,
               group |-> Group(CHOOSE i \in at : \A j \in at : j <= i) ]
  IN Captured(Candidates(AfterKeywords(text, keywords, 1)))

----------------------------------------------------------------------------
(* Risk engine: CoverageGapAnalyzer *)

\* A risk factor, with the fields the engine and the scoring read
Risk(id, type, category, severity, urgency) ==
  [ id |-> id, type |-> type, category |-> category, severity |-> severity,
    urgency |-> urgency ]

\* the result of an analyzer's catch block
AnalyzerFailed == [ success |-> FALSE, risks |-> << >> ]

\* an entry of the coverage map; a missing minLimit is 0 and a missing
\* recommended is FALSE (both falsy)
Expected(name, required, recommended, minLimit) ==
  [ name |-> name, required |-> required, recommended |-> recommended,
    minLimit |-> minLimit ]

\* CoverageGapAnalyzer.getExpectedCoverages(policyType)
getExpectedCoverages(policyType) ==
  CASE policyType = "auto" ->
         << Expected("Bodily Injury Liability", TRUE, FALSE, 50000),
            Expected("Property Damage Liability", TRUE, FALSE, 25000),
            Expected("Collision Coverage", FALSE, TRUE, 0),
            Expected("Comprehensive Coverage", FALSE, TRUE, 0),
            Expected("Uninsured Motorist", FALSE, TRUE, 0),
            Expected("Personal Injury Protection", FALSE, FALSE, 0) >>
    [] policyType = "home" ->
         << Expected("Dwelling Coverage", TRUE, FALSE, 100000),
            Expected("Personal Property Coverage", TRUE, FALSE, 50000),
            Expected("Liability Coverage", TRUE, FALSE, 100000),
            Expected("Additional Living Expenses", TRUE, FALSE, 20000),
            Expected("Medical Payments to Others", FALSE, TRUE, 0),
            Expected("Other Structures Coverage", FALSE, TRUE, 0) >>
    [] policyType = "renters" ->
         << Expected("Personal Property Coverage", TRUE, FALSE, 20000),
            Expected("Liability Coverage", TRUE, FALSE, 100000),
            Expected("Additional Living Expenses", TRUE, FALSE, 10000),
            Expected("Medical Payments to Others", FALSE, TRUE, 0) >>
    [] policyType = "life" ->
         << Expected("Death Benefit", TRUE, FALSE, 100000),
            Expected("Accidental Death Benefit", FALSE, TRUE, 0),
            Expected("Waiver of Premium", FALSE, TRUE, 0) >>
    [] policyType = "health" ->
         << Expected("Preventive Care", TRUE, FALSE, 0),
            Expected("Emergency Services", TRUE, FALSE, 0),
            Expected("Hospitalization", TRUE, FALSE, 0),
            Expected("Prescription Drugs", TRUE, FALSE, 0),
            Expected("Mental Health Services", TRUE, FALSE, 0),
            Expected("Maternity Care", FALSE, TRUE, 0) >>
    [] OTHER -> << >>

\* name.toLowerCase().replace(/[^a-z]/g, '')
RECURSIVE Letters(_)
Letters(name) ==
  IF Len(name) = 0 THEN ""
  ELSE LET c == SubSeq(name, 1, 1)
           rest == Letters(SubSeq(name, 2, Len(name)))
       IN IF c \in LowerLetters THEN c \o rest ELSE rest

\* CoverageGapAnalyzer.matchCoverageName(current, expected)
matchCoverageName(current, expected) ==
  LET Either(currentNorm, expectedNorm) ==
        Includes(currentNorm, expectedNorm) \/ Includes(expectedNorm, currentNorm)
  IN Either(Letters(toLowerCase(current)), Letters(toLowerCase(expected)))

\* name.toLowerCase().replace(/\s+/g, '-')
RECURSIVE Dashed(_)
Dashed(name) ==
  IF Len(name) = 0 THEN ""
  ELSE LET c == SubSeq(name, 1, 1)
           rest == SubSeq(name, 2, Len(name))
       IN IF c # " " THEN c \o Dashed(rest)
          ELSE IF Len(rest) > 0 /\ SubSeq(rest, 1, 1) = " " THEN Dashed(rest)
          ELSE "-" \o Dashed(rest)

\* the patterns of extractCurrentCoverages, each /keyword.*\$?([0-9,]+)/
CoveragePatterns ==
  << [name |-> "Collision Coverage", keyword |-> "collision"],
     [name |-> "Comprehensive Coverage", keyword |-> "comprehensive"],
     [name |-> "Uninsured Motorist", keyword |-> "uninsured"] >>

\* CoverageGapAnalyzer.extractCurrentCoverages(policy): policy.structuredData
\* of a policy that is no object, and toLowerCase of a text that is no string,
\* are TypeErrors
extractCurrentCoverages(policy) ==
  IF policy.t # "object" THEN [threw |-> TRUE, coverages |-> << >>]
  ELSE IF Truthy(policy.extractedText) /\ policy.extractedText.t # "string"
  THEN [threw |-> TRUE, coverages |-> << >>]
  ELSE
    LET data == policy.structuredData
        bodily == IF data.t = "object" /\ Truthy(data.liabilityLimits)
                  THEN << [name |-> "Bodily Injury Liability",
                           limit |-> parseLimit(data.liabilityLimits)] >>
                  ELSE << >>
        damage == IF data.t = "object" /\ Truthy(data.propertyDamage)
                  THEN << [name |-> "Property Damage Liability",
                           limit |-> parseLimit(data.propertyDamage)] >>
                  ELSE << >>
        Matches(text) == [ i \in 1..Len(CoveragePatterns) |->
                             Match(text, << CoveragePatterns[i].keyword >>) ]
        Found(matches) == SelectSeq([ i \in 1..Len(CoveragePatterns) |-> i ],
                                    LAMBDA i : matches[i].matched)
        Pushed(matches, found) ==
          [ k \in 1..Len(found) |->
              [name |-> CoveragePatterns[found[k]].name,
               limit |-> parseLimit(matches[found[k]].group)] ]
        FromText(matches) == Pushed(matches, Found(matches))
    IN [threw |-> FALSE,
        coverages |-> bodily \o damage \o
                      FromText(Matches(IF Truthy(policy.extractedText)
                                       THEN toLowerCase(policy.extractedText.v)
                                       ELSE ""))]

\* currentCoverages.find(c => matchCoverageName(c.name, expected.name)): the
\* index of the first match, 0 if there is none
FindCoverage(currentCoverages, expected) ==
  LET First(at) == IF at = {} THEN 0 ELSE CHOOSE i \in at : \A j \in at : i <= j
  IN First({ i \in 1..Len(currentCoverages) :
               matchCoverageName(currentCoverages[i].name, expected.name) })

\* CoverageGapAnalyzer.analyzeCoverageAdequacy(policy, expectedCoverages, userProfile)
analyzeCoverageAdequacy(policy, expectedCoverages) ==
  LET Below(current, expected, i) ==
        /\ i # 0
        /\ expected.minLimit # 0
        /\ current.coverages[i].limit < expected.minLimit
      Inadequate(current) ==
        SelectSeq(expectedCoverages,
                  LAMBDA expected :
                    Below(current, expected,
                          FindCoverage(current.coverages, expected)))
      Risks(inadequate) ==
        [ k \in 1..Len(inadequate) |->
            Risk("inadequate-" \o Dashed(toLowerCase(inadequate[k].name)),
                 "coverage_gap", "coverage_gaps",
                 IF inadequate[k].required THEN "high" ELSE "medium",
                 IF inadequate[k].required THEN "high" ELSE "medium") ]
      Analysis(current) ==
        [ threw |-> current.threw, risks |-> Risks(Inadequate(current)) ]
  IN Analysis(extractCurrentCoverages(policy))

\* CoverageGapAnalyzer.checkMissingCoverages(policy, expectedCoverages)
checkMissingCoverages(policy, expectedCoverages) ==
  LET Missing(current) ==
        SelectSeq(expectedCoverages,
                  LAMBDA expected :
                    FindCoverage(current.coverages, expected) = 0)
      Risks(missing) ==
        [ k \in 1..Len(missing) |->
            Risk("missing-" \o Dashed(toLowerCase(missing[k].name)),
                 "coverage_gap", "coverage_gaps",
                 IF missing[k].required THEN "critical"
                 ELSE IF missing[k].recommended THEN "high" ELSE "medium",
                 IF missing[k].required THEN "immediate" ELSE "medium") ]
      Analysis(current) ==
        [ threw |-> current.threw, risks |-> Risks(Missing(current)) ]
  IN Analysis(extractCurrentCoverages(policy))

\* Math.ceil(n / d) for n >= 0, d > 0
Ceil(n, d) == (n + d - 1) \div d

\* CoverageGapAnalyzer.calculateRecommendedLiability(userProfile):
\* Math.ceil(max(100000, assets * 1.5, income * 3) / 50000) * 50000, in halves
calculateRecommendedLiability(userProfile) ==
  LET twice == Max(Max(2 * 100000, 3 * Num(userProfile.assets)),
                   6 * Num(userProfile.income))
  IN Ceil(twice, 2 * 50000) * 50000

\* CoverageGapAnalyzer.extractLiabilityLimit(policy)
extractLiabilityLimit(policy) ==
  IF policy.structuredData.t = "object" /\ Truthy(policy.structuredData.liabilityLimits)
  THEN parseLimit(policy.structuredData.liabilityLimits)
  ELSE 50000

\* CoverageGapAnalyzer.analyzeCoverageLimits(policy, policyType, userProfile):
\* userProfile.assets of a null profile is a TypeError
analyzeCoverageLimits(policy, userProfile) ==
  IF userProfile.t # "object" THEN [threw |-> TRUE, risks |-> << >>]
  ELSE IF ~(Truthy(userProfile.assets) \/ Truthy(userProfile.income))
  THEN [threw |-> FALSE, risks |-> << >>]
  ELSE IF policy.t # "object" THEN [threw |-> TRUE, risks |-> << >>]
  ELSE LET Analysis(recommendedLiability, currentLiability) ==
             [ threw |-> FALSE,
               risks |-> IF currentLiability # 0
                            /\ currentLiability < recommendedLiability
                         THEN << Risk("insufficient-liability", "coverage_gap",
                                      "coverage_gaps", "high", "high") >>
                         ELSE << >> ]
       IN Analysis(calculateRecommendedLiability(userProfile),
                   extractLiabilityLimit(policy))

\* CoverageGapAnalyzer.analyze(policy, policyClassification, userProfile = {})
CoverageGapAnalyzer_analyze(policy, policyClassification, userProfile) ==
  IF policyClassification.t # "object" THEN AnalyzerFailed
  ELSE
    LET Result(coverageAnalysis, missingCoverages, limitAnalysis) ==
          IF coverageAnalysis.threw \/ missingCoverages.threw \/ limitAnalysis.threw
          THEN AnalyzerFailed
          ELSE [ success |-> TRUE,
                 risks |-> coverageAnalysis.risks \o missingCoverages.risks
                             \o limitAnalysis.risks ]
        Analysed(expectedCoverages) ==
          Result(analyzeCoverageAdequacy(policy, expectedCoverages),
                 checkMissingCoverages(policy, expectedCoverages),
                 analyzeCoverageLimits(policy, userProfile))
    IN Analysed(getExpectedCoverages(policyClassification.primaryType))

----------------------------------------------------------------------------
(* Risk engine: LiabilityAnalyzer *)

\* LiabilityAnalyzer.extractLiabilityLimits(policy), for a policy object:
\* parseLimit(...) || default
extractLiabilityLimits(policy) ==
  IF policy.structuredData.t = "object"
  THEN LET Limits(bodily, damage) ==
             [ bodilyInjury |-> IF bodily # 0 THEN bodily ELSE 50000,
               propertyDamage |-> IF damage # 0 THEN damage ELSE 25000 ]
       IN Limits(parseLimit(policy.structuredData.liabilityLimits),
                 parseLimit(policy.structuredData.propertyDamage))
  ELSE [ bodilyInjury |-> 50000, propertyDamage |-> 25000 ]

\* baseLimits[policyType] || baseLimits.auto
baseLimits(policyType) ==
  CASE policyType = "home" -> [bodilyInjury |-> 300000, propertyDamage |-> 100000]
    [] policyType = "renters" -> [bodilyInjury |-> 100000, propertyDamage |-> 50000]
    [] OTHER -> [bodilyInjury |-> 100000, propertyDamage |-> 50000]

\* calculateRecommendedLimits that leaves the profile out
calculateRecommendedLimits_baseOnly(policyType, userProfile) ==
  baseLimits(policyType)

\* LiabilityAnalyzer.calculateRecommendedLimits(policyType, userProfile), for a
\* profile object
calculateRecommendedLimits(policyType, userProfile) ==
  LET base == baseLimits(policyType)
      byAssets == IF Num(userProfile.assets) > 250000
                  THEN [ bodilyInjury |-> Max(base.bodilyInjury, 250000),
                         propertyDamage |-> Max(base.propertyDamage, 100000) ]
                  ELSE base
  IN IF Num(userProfile.income) > 75000
     THEN [byAssets EXCEPT
             !.bodilyInjury = Max(@, Num(userProfile.income) * 2)]
     ELSE byAssets

\* LiabilityAnalyzer.analyzeLiabilityLimits(policy, policyType, userProfile)
analyzeLiabilityLimits(policy, policyType, userProfile) ==
  LET Risks(currentLimits, recommendedLimits) ==
        LET bodilyGap == recommendedLimits.bodilyInjury - currentLimits.bodilyInjury
            damageGap == recommendedLimits.propertyDamage - currentLimits.propertyDamage
        IN (IF currentLimits.bodilyInjury < recommendedLimits.bodilyInjury
            THEN << Risk("insufficient-bodily-injury-liability", "liability_risk",
                         "liability_limits",
                         IF bodilyGap > 100000 THEN "high" ELSE "medium", "high") >>
            ELSE << >>)
           \o
           (IF currentLimits.propertyDamage < recommendedLimits.propertyDamage
            THEN << Risk("insufficient-property-damage-liability", "liability_risk",
                         "liability_limits",
                         IF damageGap > 50000 THEN "high" ELSE "medium", "medium") >>
            ELSE << >>)
  IN Risks(extractLiabilityLimits(policy),
           calculateRecommendedLimits(policyType, userProfile))

\* LiabilityAnalyzer.assessAssetProtection(policy, userProfile)
assessAssetProtection(policy, userProfile) ==
  IF ~Truthy(userProfile.assets) /\ ~Truthy(userProfile.income) THEN << >>
  ELSE
    LET totalAssets == Num(userProfile.assets) + Num(userProfile.homeValue)
        annualIncome == Num(userProfile.income)
        Risks(totalLiability) ==
          (IF totalAssets > totalLiability
           THEN << Risk("inadequate-asset-protection", "liability_risk",
                        "liability_limits",
                        IF totalAssets - totalLiability > 100000
                        THEN "critical" ELSE "high",
                        "high") >>
           ELSE << >>)
          \o
          (IF annualIncome > 0 /\ totalLiability < annualIncome * 3
           THEN << Risk("insufficient-income-protection", "liability_risk",
                        "liability_limits", "medium", "medium") >>
           ELSE << >>)
        Total(currentLimits) ==
          Risks(currentLimits.bodilyInjury + currentLimits.propertyDamage)
    IN Total(extractLiabilityLimits(policy))

\* LiabilityAnalyzer.assessUmbrellaNeed(policy, userProfile)
assessUmbrellaNeed(policy, userProfile) ==
  LET umbrellaIndicators(currentLimits) ==
        << Num(userProfile.assets) > 500000,
           Num(userProfile.income) > 100000,
           userProfile.hasPool,
           userProfile.hasRentalProperty,
           userProfile.hasTeenDrivers,
           currentLimits.bodilyInjury + currentLimits.propertyDamage < 500000 >>
      applicableIndicators(indicators) ==
        { i \in 1..Len(indicators) : indicators[i] }
  IN IF Cardinality(applicableIndicators(
                      umbrellaIndicators(extractLiabilityLimits(policy)))) >= 2
     THEN << Risk("umbrella-policy-recommended", "opportunity",
                  "liability_limits", "medium", "low") >>
     ELSE << >>

\* LiabilityAnalyzer.analyzeExclusions(policy, policyType): the policy types
\* that have a list of common exclusions
analyzeExclusions(policyType) ==
  IF policyType \in {"auto", "home"}
  THEN << Risk("liability-exclusions-present", "awareness", "policy_terms",
               "low", "low") >>
  ELSE << >>

\* LiabilityAnalyzer.analyze(policy, policyClassification, userProfile = {}):
\* policyClassification.primaryType, policy.structuredData and
\* userProfile.assets are TypeErrors on null
LiabilityAnalyzer_analyze(policy, policyClassification, userProfile) ==
  IF \/ policyClassification.t # "object"
     \/ policy.t # "object"
     \/ userProfile.t # "object"
  THEN AnalyzerFailed
  ELSE LET policyType == policyClassification.primaryType
       IN [ success |-> TRUE,
            risks |-> analyzeLiabilityLimits(policy, policyType, userProfile)
                        \o assessAssetProtection(policy, userProfile)
                        \o assessUmbrellaNeed(policy, userProfile)
                        \o analyzeExclusions(policyType) ]

----------------------------------------------------------------------------
(* Risk engine: DeductibleAnalyzer *)

\* the patterns of extractDeductibles, each /type.*deductible.*\$?([0-9,]+)/
DeductiblePatterns == << "collision", "comprehensive", "dwelling", "hurricane" >>

\* DeductibleAnalyzer.extractDeductibles(policy), the entries in the order of
\* Object.entries
extractDeductibles(policy) ==
  IF policy.t # "object" THEN [threw |-> TRUE, deductibles |-> << >>]
  ELSE IF Truthy(policy.extractedText) /\ policy.extractedText.t # "string"
  THEN [threw |-> TRUE, deductibles |-> << >>]
  ELSE
    LET data == policy.structuredData
        general == IF data.t = "object" /\ Truthy(data.deductible)
                   THEN << [coverageType |-> "general",
                            deductible |-> parseDeductible(data.deductible)] >>
                   ELSE << >>
        Matches(text) ==
          [ i \in 1..Len(DeductiblePatterns) |->
              Match(text, << DeductiblePatterns[i], "deductible" >>) ]
        Found(matches) == SelectSeq([ i \in 1..Len(DeductiblePatterns) |-> i ],
                                    LAMBDA i : matches[i].matched)
        Pushed(matches, found) ==
          [ k \in 1..Len(found) |->
              [coverageType |-> DeductiblePatterns[found[k]],
               deductible |-> parseDeductible(matches[found[k]].group)] ]
        FromText(matches) == Pushed(matches, Found(matches))
        OrDefault(deductibles) ==
          [ threw |-> FALSE,
            deductibles |-> IF deductibles = << >>
                            THEN << [coverageType |-> "general", deductible |-> 500] >>
                            ELSE deductibles ]
    IN OrDefault(general \o
                 FromText(Matches(IF Truthy(policy.extractedText)
                                  THEN toLowerCase(policy.extractedText.v)
                                  ELSE "")))

\* the risks of one coverage line in analyzeAffordability; monthlyIncome is
\* income / 12, so deductible > monthlyIncome is 12 * deductible > income
AffordabilityOf(line, emergencyFund, income) ==
  IF line.deductible > 0
  THEN (IF emergencyFund > 0 /\ line.deductible > emergencyFund
        THEN << Risk("unaffordable-deductible-" \o line.coverageType,
                     "financial_risk", "deductible_risks", "high", "medium") >>
        ELSE << >>)
       \o
       (IF income > 0 /\ 12 * line.deductible > income
        THEN << Risk("high-deductible-vs-income-" \o line.coverageType,
                     "financial_risk", "deductible_risks", "medium", "low") >>
        ELSE << >>)
  ELSE << >>

\* the concatenation of the lists f[1], ..., f[n]
RECURSIVE Flatten(_, _)
Flatten(f, n) == IF n = 0 THEN << >> ELSE Flatten(f, n - 1) \o f[n]

\* DeductibleAnalyzer.analyzeAffordability(policy, userProfile)
analyzeAffordability(policy, userProfile) ==
  LET emergencyFund == Num(userProfile.emergencyFund)
      income == Num(userProfile.income)
      Risks(deductibles) ==
        Flatten([ i \in 1..Len(deductibles) |->
                    AffordabilityOf(deductibles[i], emergencyFund, income) ],
                Len(deductibles))
  IN Risks(extractDeductibles(policy).deductibles)

deductibleOptions == << 250, 500, 1000, 2500, 5000 >>

\* DeductibleAnalyzer.calculateOptimalDeductible(currentDeductible, coverageType,
\* policyType, userProfile): maxAffordableDeductible is max(500, emergencyFund * 0.5)
\* and is compared in halves; potentialSavings is 0.15 of the difference, rounded
\* (Math.round takes a negative half up); savings is its absolute value
calculateOptimalDeductible(currentDeductible, userProfile) ==
  LET emergencyFund == Num(userProfile.emergencyFund)
      riskTolerance == IF Truthy(userProfile.riskTolerance)
                       THEN userProfile.riskTolerance.v ELSE "medium"
      twiceMaxAffordable == Max(2 * 500, emergencyFund)
      higher == { i \in 1..Len(deductibleOptions) :
                    /\ deductibleOptions[i] > currentDeductible
                    /\ 2 * deductibleOptions[i] <= twiceMaxAffordable }
      lower == { i \in 1..Len(deductibleOptions) :
                   /\ deductibleOptions[i] < currentDeductible
                   /\ deductibleOptions[i] >= 500 }
      Current == [ recommendation |-> "current", savings |-> 0,
                   suggestedDeductible |-> currentDeductible,
                   potentialSavings |-> 0 ]
      Increase(nextHigherOption, savings) ==
        [ recommendation |-> "increase", savings |-> savings,
          suggestedDeductible |-> nextHigherOption, potentialSavings |-> savings ]
      Decrease(nextLowerOption, savings) ==
        [ recommendation |-> "decrease", savings |-> savings,
          suggestedDeductible |-> nextLowerOption, potentialSavings |-> 0 - savings ]
  IN IF riskTolerance = "high" /\ 2 * currentDeductible < twiceMaxAffordable
     THEN IF higher = {}
          THEN Current
          ELSE LET i == CHOOSE i \in higher : \A j \in higher : i <= j
               IN Increase(deductibleOptions[i],
                           Round(15 * (deductibleOptions[i] - currentDeductible), 100))
     ELSE IF riskTolerance = "low" /\ currentDeductible > 1000
     THEN IF lower = {}
          THEN Current
          ELSE LET i == CHOOSE i \in lower : \A j \in lower : i >= j
               IN Decrease(deductibleOptions[i],
                           Ceil(Max(0, 15 * (currentDeductible - deductibleOptions[i]) - 50),
                                100))
     ELSE Current

\* the risk of one coverage line in analyzeOptimization, with the deductibles
\* and the savings it reports
OptimizationOf(line, userProfile) ==
  LET Opportunity(risk, optimization) ==
        [ field \in DOMAIN risk \cup { "currentDeductible", "suggestedDeductible",
                                       "potentialSavings", "optimizationType" } |->
            CASE field = "currentDeductible" -> line.deductible
              [] field = "suggestedDeductible" -> optimization.suggestedDeductible
              [] field = "potentialSavings" -> optimization.potentialSavings
              [] field = "optimizationType" -> optimization.recommendation
              [] OTHER -> risk[field] ]
      Risks(optimization) ==
        IF line.deductible > 0 /\ optimization.recommendation # "current"
        THEN << Opportunity(
                  Risk("deductible-optimization-" \o line.coverageType, "opportunity",
                       "deductible_risks",
                       IF optimization.savings > 200 THEN "medium" ELSE "low", "low"),
                  optimization) >>
        ELSE << >>
  IN Risks(calculateOptimalDeductible(line.deductible, userProfile))

\* DeductibleAnalyzer.analyzeOptimization(policy, policyType, userProfile)
analyzeOptimization(policy, userProfile) ==
  LET Risks(deductibles) ==
        Flatten([ i \in 1..Len(deductibles) |->
                    OptimizationOf(deductibles[i], userProfile) ],
                Len(deductibles))
  IN Risks(extractDeductibles(policy).deductibles)

\* DeductibleAnalyzer.analyzeMultipleDeductibles(policy, policyType)
analyzeMultipleDeductibles(policy) ==
  LET Risks(deductibles) ==
        LET positive == { i \in 1..Len(deductibles) : deductibles[i].deductible > 0 }
            uniqueValues == { deductibles[i].deductible : i \in positive }
        IN IF Cardinality(positive) > 2 /\ Cardinality(uniqueValues) > 2
           THEN << Risk("multiple-deductible-complexity", "complexity",
                        "policy_terms", "low", "low") >>
           ELSE << >>
  IN Risks(extractDeductibles(policy).deductibles)

\* userProfile.claimHistory || []: a list of claims, each with the age of its
\* date in years; a missing field and an empty string give the empty list
ClaimHistory(userProfile) ==
  IF userProfile.claimHistory.t = "array" THEN userProfile.claimHistory.v ELSE << >>

\* DeductibleAnalyzer.analyzeClaimFrequency(policy, userProfile): the claims of
\* the last five years are counted; claimHistory.filter of a string is a TypeError
analyzeClaimFrequency(policy, userProfile) ==
  IF userProfile.claimHistory.t = "string" /\ Truthy(userProfile.claimHistory)
  THEN [threw |-> TRUE, risks |-> << >>]
  ELSE
    LET claimHistory == ClaimHistory(userProfile)
        recentClaims == Cardinality({ i \in 1..Len(claimHistory) :
                                        claimHistory[i].yearsAgo < 5 })
        Risks(total, count) ==
          (IF recentClaims >= 2 /\ total > 1000 * count
           THEN << Risk("high-deductible-frequent-claims", "strategy_mismatch",
                        "deductible_risks", "medium", "medium") >>
           ELSE << >>)
          \o
          (IF recentClaims = 0 /\ total < 1000 * count
           THEN << Risk("low-deductible-no-claims", "opportunity",
                        "deductible_risks", "low", "low") >>
           ELSE << >>)
        Analysis(deductibles) ==
          [ threw |-> FALSE,
            risks |->
              IF Len(claimHistory) > 0
              THEN Risks(SumSeq([ i \in 1..Len(deductibles) |->
                                    deductibles[i].deductible ]),
                         Len(deductibles))
              ELSE << >> ]
    IN Analysis(extractDeductibles(policy).deductibles)

\* DeductibleAnalyzer.analyze(policy, policyClassification, userProfile = {}):
\* userProfile.emergencyFund of a null profile is a TypeError
DeductibleAnalyzer_analyze(policy, policyClassification, userProfile) ==
  IF \/ policyClassification.t # "object"
     \/ userProfile.t # "object"
     \/ extractDeductibles(policy).threw
  THEN AnalyzerFailed
  ELSE LET Result(claimAnalysis) ==
             IF claimAnalysis.threw THEN AnalyzerFailed
             ELSE [ success |-> TRUE,
                    risks |-> analyzeAffordability(policy, userProfile)
                                \o analyzeOptimization(policy, userProfile)
                                \o analyzeMultipleDeductibles(policy)
                                \o claimAnalysis.risks ]
       IN Result(analyzeClaimFrequency(policy, userProfile))

----------------------------------------------------------------------------
(* Risk engine: RiskEngine *)

\* Object.keys(this.analyzers), in the order of the constructor
AnalyzerNames == << "coverageGap", "liability", "deductible" >>

\* userProfile = {}: the default of the parameter, taken for undefined only
EmptyProfile ==
  [ t |-> "object", assets |-> Undefined, income |-> Undefined,
    emergencyFund |-> Undefined, homeValue |-> Undefined, hasPool |-> FALSE,
    hasRentalProperty |-> FALSE, hasTeenDrivers |-> FALSE,
    riskTolerance |-> Undefined, claimHistory |-> Undefined ]

Defaulted(userProfile) ==
  IF userProfile.t = "undefined" THEN EmptyProfile ELSE userProfile

\* analyzer.analyze(policy, policyClassification, userProfile) of the analyzer
\* the constructor installs under name
Analyze(name, policy, policyClassification, userProfile) ==
  CASE name = "coverageGap" ->
         CoverageGapAnalyzer_analyze(policy, policyClassification, userProfile)
    [] name = "liability" ->
         LiabilityAnalyzer_analyze(policy, policyClassification, userProfile)
    [] name = "deductible" ->
         DeductibleAnalyzer_analyze(policy, policyClassification, userProfile)

\* the body of the loop whose catch block records the analyzer as successful
runAnalyzer_throwIsSuccess(name, analyzers, policy, policyClassification, userProfile) ==
  [ name |-> name,
    result |-> IF analyzers[name] = "throws"
               THEN [success |-> TRUE, risks |-> << >>]
               ELSE Analyze(name, policy, policyClassification, userProfile) ]

\* the body of the loop of runAnalyzers: results[name] is the result of the
\* analyzer, or the result of the catch block when its analyze throws
runAnalyzer(name, analyzers, policy, policyClassification, userProfile) ==
  [ name |-> name,
    result |-> IF analyzers[name] = "throws"
               THEN [success |-> FALSE, risks |-> << >>]
               ELSE Analyze(name, policy, policyClassification, userProfile) ]

\* RiskEngine.runAnalyzers(policy, policyClassification, userProfile): the
\* entries of results, in the order of this.analyzers
runAnalyzers(analyzers, policy, policyClassification, userProfile) ==
  [ i \in 1..Len(AnalyzerNames) |->
      runAnalyzer(AnalyzerNames[i], analyzers, policy, policyClassification,
                  userProfile) ]

\* {...risk, source: analyzerName, category: risk.category || 'general'}: every
\* field of the risk is kept
Tagged(risk, analyzerName) ==
  [ field \in DOMAIN risk \cup { "source", "category" } |->
      CASE field = "source" -> analyzerName
        [] field = "category" ->
             IF risk.category = "" THEN "general" ELSE risk.category
        [] OTHER -> risk[field] ]

\* aggregateResults that stops at the first analyzer that failed
RECURSIVE aggregateResults_stopAtFailure(_)
aggregateResults_stopAtFailure(analyzerResults) ==
  IF analyzerResults = << >> \/ ~Head(analyzerResults).result.success THEN << >>
  ELSE LET entry == Head(analyzerResults)
       IN [ k \in 1..Len(entry.result.risks) |->
              Tagged(entry.result.risks[k], entry.name) ]
          \o aggregateResults_stopAtFailure(Tail(analyzerResults))

\* RiskEngine.aggregateResults(analyzerResults), the entries in the order of
\* Object.entries
RECURSIVE aggregateResults(_)
aggregateResults(analyzerResults) ==
  IF analyzerResults = << >> THEN << >>
  ELSE LET entry == Head(analyzerResults)
       IN (IF entry.result.success
           THEN [ k \in 1..Len(entry.result.risks) |->
                    Tagged(entry.result.risks[k], entry.name) ]
           ELSE << >>)
          \o aggregateResults(Tail(analyzerResults))

\* RiskEngine.determineRiskLevel(score)
determineRiskLevel(score) ==
  IF score >= 80 THEN "critical"
  ELSE IF score >= 60 THEN "high"
  ELSE IF score >= 40 THEN "medium"
  ELSE IF score >= 20 THEN "low"
  ELSE "minimal"

\* RiskEngine.groupRisksByCategory(riskFactors): the categories in the order in
\* which they first occur
RECURSIVE CategoriesOf(_)
CategoriesOf(riskFactors) ==
  IF riskFactors = << >> THEN << >>
  ELSE LET front == CategoriesOf(SubSeq(riskFactors, 1, Len(riskFactors) - 1))
           category == riskFactors[Len(riskFactors)].category
       IN IF \E i \in 1..Len(front) : front[i] = category THEN front
          ELSE Append(front, category)

\* RiskEngine.generateCategoryRecommendations(category, risks, policyType)
generateCategoryRecommendations(category, risks) ==
  LET highSeverityRisks == SelectSeq(risks, LAMBDA r : r.severity \in {"high", "critical"})
      ids == [ k \in 1..Len(highSeverityRisks) |-> highSeverityRisks[k].id ]
  IN IF highSeverityRisks = << >> THEN << >>
     ELSE CASE category = "coverage_gaps" ->
                 << [priority |-> "high", category |-> "coverage", risks |-> ids] >>
            [] category = "liability_limits" ->
                 << [priority |-> "high", category |-> "liability", risks |-> ids] >>
            [] category = "deductible_risks" ->
                 << [priority |-> "medium", category |-> "financial", risks |-> ids] >>
            [] OTHER -> << >>

\* RiskEngine.generateRecommendations(riskFactors, policyType): sorted by
\* priority, high before medium, otherwise in the order of the categories
generateRecommendations(riskFactors) ==
  LET categories == CategoriesOf(riskFactors)
      all == Flatten([ i \in 1..Len(categories) |->
                         generateCategoryRecommendations(
                           categories[i],
                           SelectSeq(riskFactors,
                                     LAMBDA r : r.category = categories[i])) ],
                     Len(categories))
  IN SelectSeq(all, LAMBDA r : r.priority = "high")
       \o SelectSeq(all, LAMBDA r : r.priority = "medium")

\* identifyCriticalIssues that leaves the urgency out
identifyCriticalIssues_criticalOnly(riskFactors) ==
  LET Issues(issues) ==
        [ k \in 1..Len(issues) |->
            [ id |-> issues[k].id, severity |-> issues[k].severity,
              category |-> issues[k].category ] ]
  IN Issues(SelectSeq(riskFactors, LAMBDA risk : risk.severity = "critical"))

\* RiskEngine.identifyCriticalIssues(riskFactors)
identifyCriticalIssues(riskFactors) ==
  LET issues == SelectSeq(riskFactors,
                          LAMBDA risk : risk.severity = "critical"
                                          \/ risk.urgency = "immediate")
  IN [ k \in 1..Len(issues) |->
         [ id |-> issues[k].id, severity |-> issues[k].severity,
           category |-> issues[k].category ] ]

\* RiskEngine.findOpportunities(riskFactors)
findOpportunities(riskFactors) ==
  LET found == SelectSeq(riskFactors,
                         LAMBDA risk : risk.type = "opportunity"
                                         \/ risk.category = "optimization")
  IN [ k \in 1..Len(found) |-> [id |-> found[k].id, category |-> found[k].category] ]

\* risk.tags?.includes('regulatory'): the risks of the constructor's analyzers
\* carry no tags
IsRegulatory(risk) ==
  /\ "tags" \in DOMAIN risk
  /\ \E i \in 1..Len(risk.tags) : risk.tags[i] = "regulatory"

\* assessCompliance that looks at the category only
assessCompliance_categoryOnly(riskFactors) ==
  LET Status(complianceRisks) ==
        IF complianceRisks = << >> THEN "compliant"
        ELSE IF \E i \in 1..Len(complianceRisks) :
                  complianceRisks[i].severity \in {"critical", "high"}
        THEN "non-compliant"
        ELSE "review-needed"
  IN Status(SelectSeq(riskFactors, LAMBDA risk : risk.category = "compliance"))

\* RiskEngine.assessCompliance(riskFactors, policyType)
assessCompliance(riskFactors) ==
  LET Status(complianceRisks) ==
        IF complianceRisks = << >> THEN "compliant"
        ELSE IF \E i \in 1..Len(complianceRisks) :
                  complianceRisks[i].severity \in {"critical", "high"}
        THEN "non-compliant"
        ELSE "review-needed"
  IN Status(SelectSeq(riskFactors,
                      LAMBDA risk : risk.category = "compliance"
                                      \/ IsRegulatory(risk)))

\* the object of the catch block of analyzeRisks
riskAnalysisFailed ==
  [ success |-> FALSE, overallRiskScore |-> 0, riskLevel |-> "unknown" ]

\* RiskEngine.analyzeRisks(policy, policyClassification, userProfile = {}):
\* policyClassification.primaryType of a null classification is a TypeError,
\* caught by analyzeRisks itself
\* and what analyzeRisks makes of the analyzers' results for a classification
\* object (lines 53-86)
RiskAnalysisOf(analyzerResults) ==
  LET Result(aggregatedRisks, overallScore) ==
        [ success |-> TRUE,
          overallRiskScore |-> overallScore,
          riskLevel |-> determineRiskLevel(overallScore),
          riskFactors |-> aggregatedRisks,
          recommendations |-> generateRecommendations(aggregatedRisks),
          criticalIssues |-> identifyCriticalIssues(aggregatedRisks),
          opportunities |-> findOpportunities(aggregatedRisks),
          complianceStatus |-> assessCompliance(aggregatedRisks),
          analyzerResults |-> analyzerResults ]
      WithScore(aggregatedRisks) ==
        Result(aggregatedRisks, calculateRiskScore(aggregatedRisks))
  IN WithScore(aggregateResults(analyzerResults))

RiskEngine_analyzeRisks(analyzers, policy, policyClassification, userProfile) ==
  IF policyClassification.t # "object" THEN riskAnalysisFailed
  ELSE RiskAnalysisOf(runAnalyzers(analyzers, policy, policyClassification,
                                   Defaulted(userProfile)))

----------------------------------------------------------------------------
(* Risk engine: the calls made of it *)

\* a policy object: the structuredData and extractedText the analyzers read,
\* and the other fields it carries
Policy(structuredData, extractedText, fields) ==
  [ t |-> "object", structuredData |-> structuredData,
    extractedText |-> extractedText, fields |-> fields ]

StructuredData(liabilityLimits, propertyDamage, deductible) ==
  [ t |-> "object", liabilityLimits |-> liabilityLimits,
    propertyDamage |-> propertyDamage, deductible |-> deductible ]

\* AnalysisPipeline.analyzeRisks: policyData = {...documentResult.structuredData,
\* extractedText, fileName, fileType}.  The fields of the document are spread
\* into the policy itself, which so has no structuredData of its own.
PipelinePolicy(documentResult) ==
  Policy(Undefined, documentResult.extractedText, documentResult.structuredData)

LiabilityLimitValues ==
  { Undefined, String("25,000"), Number(49999), String("$300,000") }

PropertyDamageValues == { Undefined, String("300000") }

DeductibleValues == { Undefined, Number(2500), String("$1,000") }

\* the text of the document: none, empty, lines of a policy, or no string
ExtractedTexts ==
  { Undefined, String(""), String("bodily injury liability $25,000"),
    String("Collision Deductible 1,005 Comprehensive 7"),
    Number(7) }

\* the results of document processing the pipeline hands on
DocumentResults ==
  { [ extractedText |-> x, structuredData |-> d ] :
      x \in ExtractedTexts \ { Number(7) },
      d \in { Undefined,
              StructuredData(String("25,000"), Undefined, Undefined),
              StructuredData(String("25,000"), Undefined, String("2,500")) } }

\* the policies analyzeRisks is called with: null, a policy with its own
\* structuredData, or the policy the pipeline builds
Policies ==
  { [t |-> "null"] }
  \cup { Policy(d, x, Undefined) :
           d \in { Undefined } \cup
                 { StructuredData(l, p, k) : l \in LiabilityLimitValues,
                                             p \in PropertyDamageValues,
                                             k \in DeductibleValues },
           x \in ExtractedTexts }
  \cup { PipelinePolicy(documentResult) : documentResult \in DocumentResults }

\* the policy of the pipeline's example, and four policies with data of their own
SomePolicies ==
  { PipelinePolicy([ extractedText |-> String("bodily injury liability $25,000"),
                     structuredData |-> StructuredData(String("25,000"), Undefined,
                                                       String("2,500")) ]),
    Policy(StructuredData(String("25,000"), Undefined, Number(2500)),
           String(""), Undefined),
    Policy(StructuredData(String("$300,000"), String("300000"), String("$1,000")),
           Undefined, Undefined),
    Policy(Undefined,
           String("Collision Deductible 1,005 Comprehensive 7"),
           Undefined),
    Policy(StructuredData(Undefined, Undefined, Number(250)), Undefined, Undefined) }

Classification(primaryType) == [ t |-> "object", primaryType |-> primaryType ]

Classifications ==
  { [t |-> "null"] }
  \cup { Classification(p) : p \in { "auto", "home", "health", "unknown" } }

Profile(assets, income, emergencyFund, hasPool, riskTolerance, claimHistory) ==
  [ EmptyProfile EXCEPT !.assets = assets, !.income = income,
                        !.emergencyFund = emergencyFund, !.hasPool = hasPool,
                        !.riskTolerance = riskTolerance,
                        !.claimHistory = claimHistory ]

Claims(ages) == [ t |-> "array", v |-> [ i \in 1..Len(ages) |-> [yearsAgo |-> ages[i]] ] ]

\* profiles that differ in what the owner has
FinancialProfiles ==
  { Profile(a, i, f, FALSE, Undefined, Undefined) :
      a \in { Undefined, Number(300000), Number(500000), Number(600000) },
      i \in { Undefined, Number(80000), Number(120000) },
      f \in { Undefined, Number(0), Number(500), Number(1000), Number(6000) } }

\* profiles that differ in how the owner behaves
BehaviourProfiles ==
  { Profile(Undefined, Number(24000), f, p, r, c) :
      f \in { Number(0), Number(600), Number(1000), Number(6000) },
      p \in BOOLEAN,
      r \in { Undefined, String("high"), String("low") },
      c \in { Undefined, Claims(<< 1, 2 >>), Claims(<< 7 >>), String("none") } }

Profiles ==
  { Undefined, [t |-> "null"] } \cup FinancialProfiles \cup BehaviourProfiles

SomeProfiles ==
  { Undefined,
    [t |-> "null"],
    Profile(Number(300000), Number(80000), Undefined, FALSE, Undefined, Undefined),
    Profile(Number(500000), Number(120000), Number(500), FALSE, Undefined, Undefined),
    Profile(Undefined, Number(24000), Number(1000), FALSE, Undefined, String("none")) }

\* this.analyzers: each analyzer is the one of the constructor, or one put in
\* its place whose analyze throws
OwnAnalyzers == [ n \in { "coverageGap", "liability", "deductible" } |-> "own" ]

Analyzers == [ { "coverageGap", "liability", "deductible" } -> { "own", "throws" } ]

EngineCall(analyzers, policy, policyClassification, userProfile) ==
  [ pc |-> "called", analyzers |-> analyzers, policy |-> policy,
    policyClassification |-> policyClassification, userProfile |-> userProfile,
    results |-> << >>, ret |-> riskAnalysisFailed ]

\* a caller calls analyzeRisks(policy, policyClassification, userProfile)
EngineCalled ==
  engine \in
    { EngineCall(OwnAnalyzers, p, Classification("auto"), u) :
        p \in Policies, u \in SomeProfiles }
    \cup { EngineCall(OwnAnalyzers, p, c, u) :
             p \in SomePolicies,
             c \in { Classification("auto"), Classification("unknown") },
             u \in Profiles }
    \cup { EngineCall(a, p, c, u) :
             a \in Analyzers, p \in SomePolicies, c \in Classifications,
             u \in SomeProfiles }

\* runAnalyzers: the next analyzer has run and its result is kept
AnalyzerRan ==
  /\ engine.pc = "called"
  /\ Len(engine.results) < Len(AnalyzerNames)
  /\ engine' =
       [engine EXCEPT
          !.results =
            Append(@, runAnalyzer(AnalyzerNames[Len(engine.results) + 1],
                                  engine.analyzers, engine.policy,
                                  engine.policyClassification,
                                  Defaulted(engine.userProfile)))]

\* analyzeRisks returns
RiskEngineReturned ==
  /\ engine.pc = "called"
  /\ Len(engine.results) = Len(AnalyzerNames)
  /\ engine' =
       [engine EXCEPT
          !.pc = "returned",
          !.ret = RiskEngine_analyzeRisks(engine.analyzers, engine.policy,
                                          engine.policyClassification,
                                          engine.userProfile)]

----------------------------------------------------------------------------
(* Risk engine: analyzers registered in this.analyzers beside or in place of
   the constructor's, whose risks may be of any category and carry tags *)

RegisteredRisk(category, severity, urgency, tags) ==
  [ id |-> category \o "-" \o severity, type |-> "risk", category |-> category,
    severity |-> severity, urgency |-> urgency, tags |-> tags ]

RegisteredRisks ==
  { RegisteredRisk(c, s, u, t) :
      c \in { "coverage_gaps", "deductible_risks", "policy_terms", "compliance" },
      s \in { "medium", "high", "critical" },
      u \in { "low", "immediate" },
      t \in { << >>, << "regulatory" >> } }

\* what analyze returns: the analyzer failed, found nothing, or found a risk
RegisteredResults ==
  { AnalyzerFailed, [ success |-> TRUE, risks |-> << >> ] }
  \cup { [ success |-> TRUE, risks |-> << f >> ] : f \in RegisteredRisks }

\* runAnalyzers has returned the results of the registered analyzers
AnalyzersJoined ==
  engine \in
    { [ pc |-> "joined",
        results |-> << [ name |-> AnalyzerNames[1], result |-> a ],
                       [ name |-> AnalyzerNames[2], result |-> b ],
                       [ name |-> AnalyzerNames[3], result |-> c ] >>,
        ret |-> riskAnalysisFailed ] :
        a \in RegisteredResults, b \in RegisteredResults,
        c \in { AnalyzerFailed, [ success |-> TRUE, risks |-> << >> ] } }

\* analyzeRisks aggregates them and returns
RisksReported ==
  /\ engine.pc = "joined"
  /\ engine' = [engine EXCEPT !.pc = "reported",
                              !.ret = RiskAnalysisOf(engine.results)]

----------------------------------------------------------------------------
(* AnalysisPipeline.executeAnalysis with its collaborators: the classifier and
   the risk engine above, a document processor that returns the text and the
   fields of a document, and an enrichment call that resolves or rejects *)

\* the fields a document or a manual entry can state
FieldNames ==
  { "policyNumber", "provider", "insuranceCompany", "policyType", "coverageType",
    "premium", "deductible", "liabilityLimits", "propertyDamage" }

\* an object with the fields of the record `stated` and no other
Fields(stated) ==
  [ f \in FieldNames \cup { "t" } |->
      IF f = "t" THEN "object"
      ELSE IF f \in DOMAIN stated THEN stated[f] ELSE Undefined ]

\* Object.keys(object) of such an object; none for a value that is no object
Keys(object) ==
  IF object.t # "object" THEN {}
  ELSE { f \in FieldNames : object[f].t # "undefined" }

\* Object.keys(userProfile)
ProfileKeys(userProfile) ==
  IF userProfile.t # "object" THEN {}
  ELSE { f \in { "assets", "income", "emergencyFund", "homeValue",
                 "riskTolerance", "claimHistory" } : userProfile[f].t # "undefined" }
       \cup { f \in { "hasPool", "hasRentalProperty", "hasTeenDrivers" } :
                userProfile[f] }

\* {...a, ...b}: the fields of b, and those of a that b does not state
Spread(a, b) ==
  [ f \in FieldNames \cup { "t" } |->
      IF f = "t" THEN "object"
      ELSE IF f \in Keys(b) THEN b[f]
      ELSE IF f \in Keys(a) THEN a[f] ELSE Undefined ]

\* what validateFileUpload and validatePolicyData make of the arguments
FileKind(file) == IF file.t = "null" THEN "none" ELSE file.kind

PolicyDataKind(policyData) ==
  IF Keys(policyData) = {} THEN "empty"
  ELSE IF Truthy(policyData.policyNumber) /\ Truthy(policyData.provider)
  THEN "complete" ELSE "incomplete"

\* AnalysisPipeline.processDocument(file): the result and the warnings pushed
AnalysisPipeline_processDocument(file, r) ==
  IF file.t = "null"
  THEN [ value |-> [ success |-> FALSE, kind |-> "nofile",
                     extractedText |-> Undefined, structuredData |-> Undefined ],
         warnings |-> << >> ]
  ELSE LET WithContent(m) ==
             [ value |-> [ success |-> m.value.success, kind |-> m.value.kind,
                           extractedText |-> IF file.outcome = "ok"
                                             THEN file.extractedText ELSE String(""),
                           structuredData |-> IF file.outcome = "ok"
                                              THEN file.structuredData
                                              ELSE Fields(<< >>) ],
               warnings |-> m.warnings ]
       IN WithContent(processDocument(file.outcome, r))

\* policyData.coverageType || 'auto'
CoverageTypeOr(policyData, default) ==
  IF policyData.t = "object" /\ Truthy(policyData.coverageType)
  THEN policyData.coverageType.v ELSE default

\* AnalysisPipeline.classifyPolicy(documentResult, policyData)
AnalysisPipeline_classifyPolicy(documentResult, policyData, r) ==
  LET Fallback(m) ==
        [ value |-> [ success |-> TRUE,
                      primaryType |-> CoverageTypeOr(policyData, "auto"),
                      confidence |-> One \div 2,
                      isConfident |-> m.value.isConfident,
                      method |-> m.value.method ],
          warnings |-> m.warnings ]
      Classification_(result) ==
        IF ~result.success THEN Fallback(classifyPolicy("fail", r))
        ELSE [ value |-> [ success |-> TRUE,
                           primaryType |-> result.primaryType,
                           confidence |-> result.confidence,
                           isConfident |-> result.isConfident = "true",
                           method |-> "keyword-pattern-matching" ],
               warnings |-> << >> ]
  IN Classification_(
       PolicyClassifier_classifyPolicy(
         IF Truthy(documentResult.extractedText)
         THEN documentResult.extractedText ELSE String(""),
         Spread(documentResult.structuredData, policyData)))

\* AnalysisPipeline.analyzeRisks(documentResult, classificationResult, userProfile)
AnalysisPipeline_analyzeRisks(analyzers, documentResult, classificationResult, userProfile, r) ==
  LET Analysis(result) ==
        IF ~result.success
        THEN [ value |-> analyzeRisks("fail", r).value,
               warnings |-> analyzeRisks("fail", r).warnings ]
        ELSE [ value |-> result, warnings |-> << >> ]
  IN Analysis(RiskEngine_analyzeRisks(analyzers, PipelinePolicy(documentResult),
                                      Classification(classificationResult.primaryType),
                                      userProfile))

\* calculateConfidenceScore(analysisData).score
calculateConfidenceScore(analysisData) ==
  Max(0, Min(100,
    100 - (IF analysisData.userProfileKeys < 3 THEN 20 ELSE 0)
        - (IF analysisData.structuredDataKeys < 5 THEN 15 ELSE 0)
        - (IF analysisData.aiAnalysisFailed THEN 25 ELSE 0)
        - (IF analysisData.documentQuality = "poor" THEN 30 ELSE 0)
        + (IF Len(analysisData.analyzersUsed) >= 3 THEN 10 ELSE 0)))

\* the confidenceData of compileResults: userProfile || {} and
\* documentResult.structuredData || {} are given by the number of their keys
ConfidenceData(documentResult, classificationResult, riskResult, aiResult, userProfile) ==
  LET succeeded == [ document |-> documentResult.success,
                     classification |-> classificationResult.success,
                     risk |-> riskResult.success,
                     ai |-> aiResult.success ]
  IN [ userProfileKeys |-> Cardinality(ProfileKeys(userProfile)),
       structuredDataKeys |-> Cardinality(Keys(documentResult.structuredData)),
       aiAnalysisFailed |-> ~aiResult.success,
       documentQuality |-> IF documentResult.success THEN "good" ELSE "poor",
       analyzersUsed |-> SelectSeq(<< "document", "classification", "risk", "ai" >>,
                                   LAMBDA a : succeeded[a]) ]

\* AnalysisPipeline.compileResults(analysisId, documentResult,
\* classificationResult, riskResult, aiResult, userProfile)
AnalysisPipeline_compileResults(documentResult, classificationResult, riskResult, aiResult, userProfile) ==
  LET Result(metrics) ==
        [ documentAnalysis |-> documentResult,
          classificationAnalysis |-> classificationResult,
          riskAnalysis |-> riskResult,
          aiAnalysis |-> aiResult,
          overallScore |-> metrics.overallScore,
          overallRating |-> metrics.overallRating,
          completeness |-> metrics.completeness,
          reliability |-> metrics.reliability,
          confidence |->
            calculateConfidenceScore(
              ConfidenceData(documentResult, classificationResult, riskResult,
                             aiResult, userProfile)) ]
  IN Result(compileResults(documentResult, classificationResult, riskResult,
                           aiResult))

\* the documents the processor reads: the policy of the pipeline's example with
\* the fields of its declarations page, and a page with a limit only
DeclarationsPage ==
  [ extractedText |->
      String("auto vehicle car automobile motor liability collision comprehensive"),
    structuredData |->
      Fields([ policyNumber |-> String("A-1"), insuranceCompany |-> String("Acme"),
               policyType |-> String("Auto Insurance"),
               deductible |-> String("2,500"),
               liabilityLimits |-> String("25,000") ]) ]

LimitPage ==
  [ extractedText |-> String("bodily injury liability $25,000"),
    structuredData |-> Fields([ liabilityLimits |-> String("25,000") ]) ]

File(kind, outcome, document) ==
  [ t |-> "object", kind |-> kind, outcome |-> outcome,
    extractedText |-> document.extractedText,
    structuredData |-> document.structuredData ]

\* no file; files that are processed; a small file; a file whose processing fails
AnalysisFiles ==
  { [t |-> "null"],
    File("valid", "ok", DeclarationsPage),
    File("small", "ok", LimitPage),
    File("valid", "fail", LimitPage) }

\* policyData: omitted, manual fields of an auto policy, manual fields that
\* lack the policy number, manual fields whose policy type is no text
ManualFields ==
  { Undefined,
    Fields([ policyNumber |-> String("A-1"), provider |-> String("Acme"),
             coverageType |-> String("auto"), policyType |-> String("auto") ]),
    Fields([ coverageType |-> String("auto") ]),
    Fields([ coverageType |-> String("home"), policyType |-> Number(7) ]) }

\* userProfile: omitted, null, two fields, three fields
AnalysisProfiles ==
  { Undefined,
    [t |-> "null"],
    Profile(Undefined, Number(24000), Number(1000), FALSE, Undefined, Undefined),
    Profile(Number(300000), Number(80000), Number(1000), FALSE, Undefined, Undefined) }

\* the enrichment call rejects, or resolves with a response of full confidence
Enrichments ==
  { [ rejects |-> b, findings |-> << FALSE, FALSE, FALSE, FALSE, FALSE >> ] :
      b \in BOOLEAN }

AllThrow == [ n \in { "coverageGap", "liability", "deductible" } |-> "throws" ]

\* the call whose warnings the model tells apart
Caller == "caller"

\* a caller calls executeAnalysis(file, policyData, userProfile); reset() has run
AnalysisCalled ==
  analysis \in
    { [ pc |-> "called", file |-> file, policyData |-> policyData,
        userProfile |-> userProfile, analyzers |-> analyzers, ai |-> ai,
        validationResult |-> NoValidation,
        documentResult |-> NoDocument,
        classificationResult |-> NoClassification,
        riskResult |-> NoRisk, aiResult |-> NoAI,
        ret |-> [ success |-> FALSE, hasResult |-> FALSE, error |-> "none",
                  warnings |-> << >> ] ] :
        file \in AnalysisFiles, policyData \in ManualFields,
        userProfile \in AnalysisProfiles,
        analyzers \in { OwnAnalyzers, AllThrow }, ai \in Enrichments }

\* validateInputs; a failure is thrown to the catch of executeAnalysis
AnalysisValidated ==
  /\ analysis.pc = "called"
  /\ LET Step(validationResult) ==
           IF validationResult.success
           THEN [analysis EXCEPT !.pc = "validated",
                                 !.validationResult = validationResult]
           ELSE [analysis EXCEPT
                   !.pc = "done",
                   !.validationResult = validationResult,
                   !.ret = [ success |-> FALSE, hasResult |-> FALSE,
                             error |-> "Validation failed",
                             warnings |-> warnings ]]
     IN analysis' = Step(validateInputs(FileKind(analysis.file),
                                        PolicyDataKind(analysis.policyData)))
  /\ UNCHANGED warnings

\* processDocument
AnalysisDocumentProcessed ==
  /\ analysis.pc = "validated"
  /\ LET Step(m) ==
           /\ analysis' = [analysis EXCEPT !.pc = "document_returned",
                                           !.documentResult = m.value]
           /\ warnings' = warnings \o m.warnings
     IN Step(AnalysisPipeline_processDocument(analysis.file, Caller))

\* classifyPolicy
AnalysisClassified ==
  /\ analysis.pc = "document_returned"
  /\ LET Step(m) ==
           /\ analysis' = [analysis EXCEPT !.pc = "classified",
                                           !.classificationResult = m.value]
           /\ warnings' = warnings \o m.warnings
     IN Step(AnalysisPipeline_classifyPolicy(analysis.documentResult,
                                             analysis.policyData, Caller))

\* analyzeRisks
AnalysisRiskAnalyzed ==
  /\ analysis.pc = "classified"
  /\ LET Step(m) ==
           /\ analysis' = [analysis EXCEPT !.pc = "risk_returned",
                                           !.riskResult = m.value]
           /\ warnings' = warnings \o m.warnings
     IN Step(AnalysisPipeline_analyzeRisks(analysis.analyzers,
                                           analysis.documentResult,
                                           analysis.classificationResult,
                                           analysis.userProfile, Caller))

\* generateAIAnalysis
AnalysisAIAnalyzed ==
  /\ analysis.pc = "risk_returned"
  /\ LET Step(m) ==
           /\ analysis' = [analysis EXCEPT !.pc = "ai_returned",
                                           !.aiResult = m.value]
           /\ warnings' = warnings \o m.warnings
     IN Step(generateAIAnalysis(analysis.ai, Caller))

\* compileResults and the return of executeAnalysis
AnalysisCompiled ==
  /\ analysis.pc = "ai_returned"
  /\ analysis' =
       [analysis EXCEPT
          !.pc = "done",
          !.ret = [ success |-> TRUE, hasResult |-> TRUE, error |-> "none",
                    result |-> AnalysisPipeline_compileResults(
                                 analysis.documentResult,
                                 analysis.classificationResult,
                                 analysis.riskResult, analysis.aiResult,
                                 analysis.userProfile),
                    warnings |-> warnings ]]
  /\ UNCHANGED warnings

----------------------------------------------------------------------------
\* No caller of the pipeline and no collaborator of it takes part
NoCallers ==
  [ files |-> {}, policyData |-> {}, callbacks |-> {}, document |-> {},
    classifier |-> {}, risk |-> {}, ai |-> {}, observerThrows |-> {} ]

\* PolicyClassifier and RiskEngine before any call
IdleClassifier == [pc |-> "idle"]
IdleEngine == [pc |-> "idle"]

\* executeAnalysis before any call with documents, fields and profiles
IdleAnalysis == [pc |-> "idle"]

----------------------------------------------------------------------------
(* Specifications *)

\* new AnalysisPipeline(): the exported object, before any call
Pipeline ==
  /\ currentStage = 0
  /\ stageProgress = << >>
  /\ errors = << >>
  /\ warnings = << >>
  /\ run = [r \in Runs |-> IdleRun]

NoOtherCall(r) == \A q \in Runs \ {r} : run[q].pc = "idle"

\* A caller that awaits each call before making the next.
Elsewhere ==
  /\ scoring = IdleScoring
  /\ classifier = IdleClassifier
  /\ engine = IdleEngine
  /\ analysis = IdleAnalysis

Init == Pipeline /\ env = AnyEnv /\ Elsewhere

Next ==
  \E r \in Runs :
    /\ UNCHANGED << scoring, classifier, engine, analysis >>
    /\ \/ NoOtherCall(r) /\ Start(r)
       \/ Validated(r)
       \/ DocumentProcessed(r)
       \/ Classified(r)
       \/ RiskStarted(r)
       \/ RiskAnalyzed(r)
       \/ AIStarted(r)
       \/ AIAnalyzed(r)
       \/ Compiled(r)
       \/ Returned(r)
       \/ Discard(r)

Spec == Init /\ [][Next]_vars

\* Callers that do not wait for each other (one call per incoming request).
InitOverlap == Pipeline /\ env = OverlapEnv /\ Elsewhere

NextOverlap ==
  \E r \in Runs :
    /\ UNCHANGED << scoring, classifier, engine, analysis >>
    /\ \/ Start(r)
       \/ Validated(r)
       \/ DocumentProcessed(r)
       \/ Classified(r)
       \/ RiskStarted(r)
       \/ RiskAnalyzed(r)
       \/ AIStarted(r)
       \/ AIAnalyzed(r)
       \/ Compiled(r)
       \/ Returned(r)

SpecOverlap == InitOverlap /\ [][NextOverlap]_vars

\* calculateRiskScore applied to lists of risk factors that grow and change
InitScoring ==
  /\ Pipeline /\ env = NoCallers
  /\ FactorsDrawn
  /\ classifier = IdleClassifier
  /\ engine = IdleEngine
  /\ analysis = IdleAnalysis

NextScoring ==
  /\ UNCHANGED << currentStage, stageProgress, errors, warnings, env, run,
                  classifier, engine, analysis >>
  /\ \/ Scored
     \/ FactorAdded
     \/ SeverityRaised

SpecScoring == InitScoring /\ [][NextScoring]_vars

\* PolicyClassifier.classifyPolicy called with texts and structured fields
InitClassifier ==
  /\ Pipeline /\ env = NoCallers
  /\ scoring = IdleScoring
  /\ ClassifierCalled
  /\ engine = IdleEngine
  /\ analysis = IdleAnalysis

NextClassifier ==
  /\ UNCHANGED << currentStage, stageProgress, errors, warnings, env, run,
                  scoring, engine, analysis >>
  /\ PolicyClassified

SpecClassifier == InitClassifier /\ [][NextClassifier]_vars

\* RiskEngine.analyzeRisks called with policies, classifications and profiles
InitEngine ==
  /\ Pipeline /\ env = NoCallers
  /\ scoring = IdleScoring
  /\ classifier = IdleClassifier
  /\ EngineCalled
  /\ analysis = IdleAnalysis

NextEngine ==
  /\ UNCHANGED << currentStage, stageProgress, errors, warnings, env, run,
                  scoring, classifier, analysis >>
  /\ \/ AnalyzerRan
     \/ RiskEngineReturned

SpecEngine == InitEngine /\ [][NextEngine]_vars

\* RiskEngine.analyzeRisks on the results of registered analyzers
InitReport ==
  /\ Pipeline /\ env = NoCallers
  /\ scoring = IdleScoring
  /\ classifier = IdleClassifier
  /\ AnalyzersJoined
  /\ analysis = IdleAnalysis

NextReport ==
  /\ UNCHANGED << currentStage, stageProgress, errors, warnings, env, run,
                  scoring, classifier, analysis >>
  /\ RisksReported

SpecReport == InitReport /\ [][NextReport]_vars

\* executeAnalysis called with documents, manual fields and profiles
InitAnalysis ==
  /\ Pipeline /\ env = NoCallers
  /\ scoring = IdleScoring
  /\ classifier = IdleClassifier
  /\ engine = IdleEngine
  /\ AnalysisCalled

NextAnalysis ==
  /\ UNCHANGED << currentStage, stageProgress, errors, env, run,
                  scoring, classifier, engine >>
  /\ \/ AnalysisValidated
     \/ AnalysisDocumentProcessed
     \/ AnalysisClassified
     \/ AnalysisRiskAnalyzed
     \/ AnalysisAIAnalyzed
     \/ AnalysisCompiled

SpecAnalysis == InitAnalysis /\ [][NextAnalysis]_vars

----------------------------------------------------------------------------
(* Properties *)

Done(r) == run[r].pc = "done"
Succeeded(r) == Done(r) /\ run[r].ret.success
NoInputs(r) ==
  run[r].pc # "idle" /\ run[r].file = "none" /\ run[r].policyData \in {"absent", "empty"}
StageSet == { stages[i] : i \in 1..Len(stages) }

\* C1: a call with no document and with manual fields empty or absent returns
\* success=false with an error message and failedStage 'validation'; no stage
\* after validation starts (no progress event of a later stage is emitted),
\* and no result is returned.
C1_NoInputsFailAtValidation ==
  \A r \in Runs :
    NoInputs(r) =>
      /\ run[r].pc \in {"validating", "done"}
      /\ \A i \in DOMAIN run[r].events : run[r].events[i].stage = "validation"
      /\ Done(r) =>
           /\ ~run[r].ret.success
           /\ run[r].ret.error # "none"
           /\ run[r].ret.failedStage = "validation"
           /\ ~run[r].ret.hasResult

\* C1 witness: such a call was made with an observer, validateInputs rejected
\* it, and the call has returned.
C1_Witness ==
  \E r \in Runs :
    /\ NoInputs(r) /\ Done(r)
    /\ run[r].progressCallback
    /\ run[r].ret.error = "Validation failed"
    /\ Len(run[r].events) = 1

\* C2: whenever validation passes, executeAnalysis returns success=true with
\* a result, however document processing, classification, risk analysis and
\* enrichment end (also with no document at all); and it terminates: a call
\* that has started and not returned can always take its next step. (The
\* progress observer is not one of the stages; C5 is about it.)
C2_ValidatedCallSucceeds ==
  \A r \in Runs :
    /\ (Done(r) /\ run[r].validationResult.success /\ run[r].ret.error # "callback")
         => (run[r].ret.success /\ run[r].ret.hasResult)
    /\ (run[r].pc \notin {"idle", "done"}) => ENABLED Resume(r)

\* C2 witness: a call whose document processing, classification, risk analysis
\* and enrichment all failed has returned success=true; and so has a call
\* with manual fields only.
C2_Witness ==
  \E r \in Runs :
    /\ Succeeded(r)
    /\ run[r].failed = StageSet \ {"validation", "result_compilation"}

C2_WitnessManualOnly ==
  \E r \in Runs : Succeeded(r) /\ run[r].file = "none"

\* C3: the progress events of a call come in the fixed order: for each stage
\* of validation, document_processing, policy_classification, risk_analysis,
\* ai_analysis, result_compilation its start (0) and then its completion
\* (100), a stage starting only after the previous one has completed; a
\* successful call has announced every stage, once.
C3_StagesInOrder ==
  \A r \in Runs :
    /\ \A i \in DOMAIN run[r].events :
         /\ run[r].events[i].stage = stages[(i + 1) \div 2]
         /\ run[r].events[i].progress = IF i % 2 = 1 THEN 0 ELSE 100
    /\ (Succeeded(r) /\ run[r].progressCallback)
         => Len(run[r].events) = 2 * Len(stages)

\* C3 witness: a successful call whose observer has received all twelve events.
C3_Witness ==
  \E r \in Runs : Succeeded(r) /\ Len(run[r].events) = 12

\* C4: two calls that overlap do not affect each other: the warnings and the
\* stage-progress records a call returns are exactly the ones that call
\* produced.
C4_CallsDoNotAffectEachOther ==
  \A r \in Runs :
    Succeeded(r) =>
      /\ run[r].ret.warnings = run[r].pushed
      /\ run[r].ret.stages = [s \in StageSet |-> ProgressEntry(100, r)]

\* C5: an observer that throws at a progress event does not change the
\* outcome: the call returns the success flag (and result) it returns with an
\* observer that does not throw, which is success exactly when validation
\* passes.
C5_ObserverFailureIsHarmless ==
  \A r \in Runs :
    (Done(r) /\ run[r].ret.error = "callback") =>
      /\ run[r].ret.success = validateInputs(run[r].file, run[r].policyData).success
      /\ run[r].ret.hasResult = run[r].ret.success

\* C6: a stage among document processing, risk analysis and enrichment that
\* failed and was replaced by its fallback is not credited its 25 points of
\* completeness, and a failed document processing or risk analysis lowers the
\* reliability by 30 and 25.
C6_FailuresLowerCompleteness ==
  \A r \in Runs :
    Succeeded(r) =>
      LET me == run[r]
          Held(result, stage) ==
            [result EXCEPT !.success = @ /\ stage \notin me.failed]
          doc == Held(me.documentResult, "document_processing")
          risk == Held(me.riskResult, "risk_analysis")
          ai == Held(me.aiResult, "ai_analysis")
      IN /\ me.ret.result.completeness =
              calculateCompleteness(doc, me.classificationResult, risk, ai)
         /\ me.ret.result.reliability =
              calculateReliability(doc, me.classificationResult, risk)

\* C7: every failure of a stage after validation adds a warning naming that
\* stage, and the warnings the call returns contain it.
C7_FailuresAreWarned ==
  \A r \in Runs :
    Succeeded(r) =>
      \A stage \in run[r].failed :
        \E i \in DOMAIN run[r].ret.warnings : run[r].ret.warnings[i].stage = stage

\* C8: overallScore is 75 plus the risk-level adjustment, plus the
\* AI-confidence adjustment only when the enrichment call succeeded.
C8_NoAIAdjustmentAfterFailure ==
  \A r \in Runs :
    Succeeded(r) =>
      run[r].ret.result.overallScore =
        Round(750 + 10 * riskAdjustment(run[r].riskResult.riskLevel)
                  + (IF "ai_analysis" \in run[r].failed
                     THEN 0 ELSE run[r].aiResult.aiConfidence - 50),
              10)

\* C9: every progress event carries overallProgress = stages completed so far
\* over the number of stages, times 100, rounded; the event that starts a
\* stage does not count that stage.
C9_OverallProgressCountsCompleted ==
  \A r \in Runs :
    \A i \in DOMAIN run[r].events :
      run[r].events[i].overallProgress =
        Round(100 * Cardinality({ j \in 1..i : run[r].events[j].progress = 100 }),
              Len(stages))

\* C10: when a call returns success=false, failedStage names the stage that
\* was executing when the failure occurred.
C10_FailedStageIsTheFailingStage ==
  \A r \in Runs :
    (Done(r) /\ ~run[r].ret.success) => run[r].ret.failedStage = run[r].threwAt

----------------------------------------------------------------------------
(* Properties of the risk score *)

\* list m is list l with the severity of exactly one factor raised, categories
\* and all other factors unchanged
RaisedOne(l, m) ==
  /\ Len(m) = Len(l)
  /\ \E i \in 1..Len(l) :
       /\ m[i].category = l[i].category
       /\ SeverityRank(m[i].severity) > SeverityRank(l[i].severity)
       /\ \A j \in 1..Len(l) : j # i => m[j] = l[j]

\* C13: raising the severity of one risk factor of a list, its category and the
\* other factors unchanged, never decreases the value of calculateRiskScore.
C13_RaisingSeverityNeverLowersScore ==
  [][ ( /\ scoring.pc = "scored"
        /\ scoring'.pc = "scored"
        /\ RaisedOne(scoring.riskFactors, scoring'.riskFactors) )
      => scoring'.score >= scoring.score ]_vars

\* C13 witness: a list of two factors was scored again after the severity of its
\* second factor was raised to critical, and the score is below 100.
C13_Witness ==
  /\ scoring.pc = "scored"
  /\ scoring.last = "raise"
  /\ Len(scoring.riskFactors) = 2
  /\ scoring.riskFactors[2].severity = "critical"
  /\ scoring.score < 100

\* C14 as claimed: the normalizer does not depend on the number of risk factors,
\* so that a list extended by one more risk factor (whose weight is positive)
\* never scores lower than the list before.
C14_NormalizerIsFixed ==
  [][ ( /\ scoring.pc = "scored"
        /\ scoring'.pc = "scored"
        /\ Len(scoring'.riskFactors) = Len(scoring.riskFactors) + 1
        /\ SubSeq(scoring'.riskFactors, 1, Len(scoring.riskFactors))
             = scoring.riskFactors )
      => scoring'.score >= scoring.score ]_vars

\* the sum over the factors i..n of severity weight x category multiplier (tenths)
RECURSIVE WeightedSum(_, _)
WeightedSum(l, i) ==
  IF i > Len(l) THEN 0
  ELSE severityWeights(l[i].severity) * categoryMultipliers(l[i].category)
       + WeightedSum(l, i + 1)

\* C14 amended: the score of a non-empty list is the sum of severity weight x
\* category multiplier over its factors, divided by 25 x 1.3 x the number of
\* factors, times 100, rounded and kept within [0,100]; an empty list scores 0.
C14_NormalizerGrowsWithFactors ==
  scoring.pc = "scored" =>
    LET l == scoring.riskFactors
    IN /\ scoring.score \in 0..100
       /\ IF Len(l) = 0 THEN scoring.score = 0
          ELSE scoring.score =
                 Min(100, Round(100 * WeightedSum(l, 1), 25 * 13 * Len(l)))

\* C14 witness: two factors scored together get less than the first one alone
\* would: critical compliance (100 alone) and minimal policy_terms give 56.
C14_Witness ==
  /\ scoring.pc = "scored"
  /\ scoring.riskFactors =
       << [severity |-> "critical", category |-> "compliance"],
          [severity |-> "minimal", category |-> "policy_terms"] >>
  /\ scoring.score = 56

\* the category multipliers as the claim C20 lists them, in tenths
ClaimedMultiplier(category) ==
  CASE category = "coverage_gaps" -> 12
    [] category = "liability_limits" -> 11
    [] category = "deductible_risks" -> 9
    [] category = "policy_terms" -> 8
    [] category = "compliance" -> 13
    [] category = "financial_risk" -> 11
    [] category = "optimization" -> 5
    [] category = "opportunity" -> 5
    [] OTHER -> 10

\* C20: each risk factor is weighted by its category's multiplier as listed
\* (coverage_gaps 1.2 ... financial_risk 1.1, optimization and opportunity 0.5):
\* a list of one factor scores severity weight x that multiplier over 25 x 1.3.
C20_CategoryMultipliers ==
  (scoring.pc = "scored" /\ Len(scoring.riskFactors) = 1) =>
    LET f == scoring.riskFactors[1]
    IN scoring.score =
         Min(100, Round(100 * severityWeights(f.severity) * ClaimedMultiplier(f.category),
                        25 * 13))

----------------------------------------------------------------------------
(* Classifier claims *)

\* text is a string and every structured field given is a string, as document
\* intake and manual entry provide them
StringValuedInput ==
  /\ classifier.text.t = "string"
  /\ classifier.structuredData.t = "object" =>
       /\ classifier.structuredData.policyType.t \in {"undefined", "string"}
       /\ classifier.structuredData.coverageType.t \in {"undefined", "string"}

\* the candidates of a result are ranked by descending confidence
Ranked(classifications) ==
  \A i, j \in 1..Len(classifications) :
    i < j => classifications[i].confidence >= classifications[j].confidence

\* C15: every result of classifyPolicy has a confidence in [0,1], isConfident
\* true exactly when the confidence is at least 0.6, and primaryType the
\* top-ranked type when isConfident and 'unknown' otherwise; a classification of
\* string-valued input succeeds, and a successful one returns its ranked
\* candidates, below the threshold too, with the confidence that of the first.
C15_ConfidenceAndThreshold ==
  classifier.pc = "returned" =>
    LET r == classifier.result
    IN /\ r.confidence \in 0..One
       /\ (r.isConfident = "true") <=> (r.confidence >= confidenceThreshold)
       /\ StringValuedInput => r.success
       /\ r.success =>
            /\ Ranked(r.allClassifications)
            /\ \A i \in 1..Len(r.allClassifications) :
                 r.allClassifications[i].confidence \in 1..One
            /\ r.confidence = IF r.allClassifications = << >> THEN 0
                              ELSE r.allClassifications[1].confidence
            /\ r.primaryType = IF r.isConfident = "true"
                               THEN r.allClassifications[1].type
                               ELSE "unknown"
       /\ ~r.success => r.primaryType = "unknown" /\ r.isConfident # "true"

\* a classification below the threshold that still returns its candidates
C15_Witness ==
  /\ classifier.pc = "returned"
  /\ classifier.result.success
  /\ classifier.result.isConfident = "false"
  /\ classifier.result.primaryType = "unknown"
  /\ Len(classifier.result.allClassifications) > 1
  /\ classifier.result.confidence > 0

\* C16 as stated: classifyPolicy never raises, and empty text yields a score of
\* zero for every policy type (no type is a candidate) and primaryType
\* 'unknown', for every structuredData argument.
C16_EmptyTextScoresZero ==
  classifier.pc = "returned" =>
    /\ ~classifier.result.raised
    /\ classifier.text = [t |-> "string", v |-> ""] =>
         /\ classifier.result.primaryType = "unknown"
         /\ classifier.result.success => classifier.result.allClassifications = << >>

\* the structured component of a type's score: 30% of the fraction of its
\* patterns that the structured fields match, over the total weight 1.0
StructuredShare(structuredData, typeConfig) ==
  (One * 3 * checkStructuredPatterns(structuredData, typeConfig.structuredPatterns).matches)
    \div (10 * Cardinality(DOMAIN typeConfig.structuredPatterns))

\* C16 amended: classifyPolicy never raises, whatever the text and the
\* structuredData argument; empty text yields primaryType 'unknown' and is never
\* confident, and a policy type then scores zero unless a structured field
\* matches one of its patterns, in which case it scores the structured
\* component alone (at most 0.3).
C16_EmptyTextIsUnknown ==
  classifier.pc = "returned" =>
    /\ ~classifier.result.raised
    /\ classifier.text = [t |-> "string", v |-> ""] =>
         /\ classifier.result.primaryType = "unknown"
         /\ classifier.result.isConfident # "true"
         /\ classifier.result.confidence <= (One * 3) \div 10
         /\ classifier.result.success =>
              \A i \in 1..Len(POLICY_TYPES) :
                LET data == IF classifier.structuredData.t = "undefined"
                            THEN EmptyStructuredData ELSE classifier.structuredData
                    share == IF data.t = "null" THEN 0
                             ELSE StructuredShare(data, POLICY_TYPES[i])
                    listed == { j \in 1..Len(classifier.result.allClassifications) :
                                  classifier.result.allClassifications[j].type
                                    = POLICY_TYPES[i].type }
                IN IF share = 0 THEN listed = {}
                   ELSE \E j \in listed :
                          classifier.result.allClassifications[j].confidence = share

\* empty text with a structured field that names the policy type: the type is
\* a candidate with a score above zero, and primaryType is 'unknown'
C16_Witness ==
  /\ classifier.pc = "returned"
  /\ classifier.text = [t |-> "string", v |-> ""]
  /\ classifier.result.success
  /\ classifier.result.primaryType = "unknown"
  /\ classifier.result.confidence > 0

----------------------------------------------------------------------------
(* Risk engine claims *)

\* the profile the analyzers are given
GivenProfile == Defaulted(engine.userProfile)

\* what the analyzer installed under name does: it throws, or it returns the
\* result of the constructor's analyzer
Outcome(name) ==
  IF engine.analyzers[name] = "throws" THEN [threw |-> TRUE, success |-> FALSE]
  ELSE LET result == Analyze(name, engine.policy, engine.policyClassification,
                             GivenProfile)
       IN [threw |-> FALSE, success |-> result.success, risks |-> result.risks]

\* the analyzer installed under name throws, or returns success = false
Fails(name) == LET outcome == Outcome(name) IN outcome.threw \/ ~outcome.success

\* the risks of the analyzers that do not fail, in the order of the analyzers
RisksOfTheRest ==
  Flatten([ i \in 1..Len(AnalyzerNames) |->
              LET outcome == Outcome(AnalyzerNames[i])
              IN IF outcome.threw \/ ~outcome.success THEN << >>
                 ELSE outcome.risks ],
          Len(AnalyzerNames))

\* a risk factor of the engine without its source tag
Untagged(risk) == [ field \in DOMAIN risk \ { "source" } |-> risk[field] ]

\* C11: in a call of analyzeRisks with a classification, an analyzer that
\* throws or returns success=false is recorded with success=false and an empty
\* risk list, no risk factor of the result comes from it, and the engine
\* returns success=true with exactly the risks of the other analyzers as its
\* riskFactors.
C11_FailedAnalyzerIsLeftOut ==
  engine.policyClassification.t = "object" =>
    /\ \A i \in 1..Len(engine.results) :
         /\ engine.results[i].name = AnalyzerNames[i]
         /\ Fails(AnalyzerNames[i]) =>
              /\ ~engine.results[i].result.success
              /\ engine.results[i].result.risks = << >>
    /\ engine.pc = "returned" =>
         /\ engine.ret.success
         /\ engine.ret.analyzerResults = engine.results
         /\ [ k \in 1..Len(engine.ret.riskFactors) |->
                Untagged(engine.ret.riskFactors[k]) ] = RisksOfTheRest
         /\ \A i \in 1..Len(AnalyzerNames) :
              Fails(AnalyzerNames[i]) =>
                \A k \in 1..Len(engine.ret.riskFactors) :
                  engine.ret.riskFactors[k].source # AnalyzerNames[i]

\* one analyzer throws, another returns success=false by itself, and the
\* engine returns the risks of the third
C11_Witness ==
  /\ engine.pc = "returned"
  /\ engine.ret.success
  /\ \E n \in DOMAIN engine.analyzers : engine.analyzers[n] = "throws"
  /\ \E n \in DOMAIN engine.analyzers :
       engine.analyzers[n] = "own" /\ Fails(n)
  /\ engine.ret.riskFactors # << >>

\* the orders in which three results are joined
JoinOrders ==
  { f \in [1..Len(AnalyzerNames) -> 1..Len(AnalyzerNames)] :
      \A i, j \in 1..Len(AnalyzerNames) : f[i] = f[j] => i = j }

SetOf(sequence) == { sequence[i] : i \in 1..Len(sequence) }

\* C12: whatever the order in which the three analyzers' results are joined,
\* the aggregated risks have the score, the risk level and the set of critical
\* issues the engine returned, and every aggregated risk factor carries the
\* name of the analyzer whose result holds it.
C12_AggregationIsOrderIndependent ==
  (engine.pc = "returned" /\ engine.ret.success) =>
    \A f \in JoinOrders :
      LET joined == aggregateResults([ i \in 1..Len(AnalyzerNames) |->
                                         engine.results[f[i]] ])
      IN /\ calculateRiskScore(joined) = engine.ret.overallRiskScore
         /\ determineRiskLevel(calculateRiskScore(joined)) = engine.ret.riskLevel
         /\ SetOf(identifyCriticalIssues(joined)) = SetOf(engine.ret.criticalIssues)
         /\ SetOf(joined) = SetOf(engine.ret.riskFactors)
         /\ \A k \in 1..Len(joined) :
              \E i \in 1..Len(engine.results) :
                /\ engine.results[i].name = joined[k].source
                /\ engine.results[i].result.success
                /\ \E m \in 1..Len(engine.results[i].result.risks) :
                     engine.results[i].result.risks[m] = Untagged(joined[k])

\* two analyzers have risks to join, one of them after an analyzer that
\* failed, and there are critical issues among them
C12_Witness ==
  /\ engine.pc = "returned"
  /\ engine.ret.success
  /\ ~engine.results[1].result.success
  /\ engine.results[2].result.risks # << >>
  /\ engine.results[3].result.risks # << >>
  /\ engine.ret.criticalIssues # << >>

\* the bodily-injury liability limit of the policy is stated, in the policy's
\* structured data or in the fields of the document, and is below 50,000
BodilyInjuryBelow50000 ==
  /\ engine.policy.t = "object"
  /\ \/ /\ engine.policy.structuredData.t = "object"
        /\ Truthy(engine.policy.structuredData.liabilityLimits)
        /\ parseLimit(engine.policy.structuredData.liabilityLimits) < 50000
     \/ /\ engine.policy.fields.t = "object"
        /\ Truthy(engine.policy.fields.liabilityLimits)
        /\ parseLimit(engine.policy.fields.liabilityLimits) < 50000

\* C17: for a policy whose bodily-injury liability limit is below 50,000 and a
\* profile with income 80,000 and assets 300,000, the liability analyzer
\* returns success=true and at least one risk of category liability_limits
\* whose severity is high or critical.
C17_LowBodilyInjuryLimitIsFlagged ==
  ( /\ Len(engine.results) >= 2
    /\ engine.analyzers["liability"] = "own"
    /\ engine.policyClassification.t = "object"
    /\ BodilyInjuryBelow50000
    /\ GivenProfile.t = "object"
    /\ GivenProfile.income = Number(80000)
    /\ GivenProfile.assets = Number(300000) ) =>
      /\ engine.results[2].name = "liability"
      /\ engine.results[2].result.success
      /\ \E k \in 1..Len(engine.results[2].result.risks) :
           /\ engine.results[2].result.risks[k].category = "liability_limits"
           /\ engine.results[2].result.risks[k].severity \in {"high", "critical"}

\* a limit of 25,000 beside a property damage limit that covers the assets: the
\* bodily-injury risk is the one of high severity
C17_Witness ==
  /\ Len(engine.results) >= 2
  /\ engine.analyzers["liability"] = "own"
  /\ BodilyInjuryBelow50000
  /\ GivenProfile.t = "object"
  /\ GivenProfile.income = Number(80000)
  /\ GivenProfile.assets = Number(300000)
  /\ \E k \in 1..Len(engine.results[2].result.risks) :
       /\ engine.results[2].result.risks[k].id = "insufficient-bodily-injury-liability"
       /\ engine.results[2].result.risks[k].severity = "high"
  /\ \A k \in 1..Len(engine.results[2].result.risks) :
       engine.results[2].result.risks[k].id # "inadequate-asset-protection"

\* C18: for every coverage line whose deductible is above zero and above the
\* profile's emergency fund, whatever the fund is, the deductible analyzer
\* returns a risk of category deductible_risks and severity high for that line.
C18_DeductibleAboveFundIsFlagged ==
  ( /\ Len(engine.results) = Len(AnalyzerNames)
    /\ engine.analyzers["deductible"] = "own"
    /\ engine.results[3].result.success
    /\ GivenProfile.emergencyFund.t = "number" ) =>
      LET deductibles == extractDeductibles(engine.policy).deductibles
      IN \A i \in 1..Len(deductibles) :
           ( /\ deductibles[i].deductible > 0
             /\ deductibles[i].deductible > GivenProfile.emergencyFund.v ) =>
               \E k \in 1..Len(engine.results[3].result.risks) :
                 LET risk == engine.results[3].result.risks[k]
                 IN /\ risk.id = "unaffordable-deductible-" \o deductibles[i].coverageType
                    /\ risk.category = "deductible_risks"
                    /\ risk.severity = "high"

\* the call the pipeline makes for an auto policy whose text contains 'bodily
\* injury liability $25,000', with the profile {assets: 500000, income: 120000,
\* emergencyFund: 500}
PipelineExample ==
  /\ engine.pc = "returned"
  /\ engine.analyzers = OwnAnalyzers
  /\ engine.policyClassification = Classification("auto")
  /\ \E documentResult \in DocumentResults :
       /\ engine.policy = PipelinePolicy(documentResult)
       /\ documentResult.extractedText.t = "string"
       /\ Includes(documentResult.extractedText.v, "bodily injury liability $25,000")
  /\ engine.userProfile = Profile(Number(500000), Number(120000), Number(500),
                                  FALSE, Undefined, Undefined)

\* C19: the pipeline's example yields riskLevel high or critical, a
\* coverage_gaps factor of severity critical or high, a deductible
\* affordability factor, and an umbrella-policy factor of type opportunity.
C19_PipelineExample ==
  PipelineExample =>
    /\ engine.ret.success
    /\ engine.ret.riskLevel \in {"high", "critical"}
    /\ \E k \in 1..Len(engine.ret.riskFactors) :
         /\ engine.ret.riskFactors[k].category = "coverage_gaps"
         /\ engine.ret.riskFactors[k].severity \in {"critical", "high"}
    /\ \E k \in 1..Len(engine.ret.riskFactors) :
         /\ engine.ret.riskFactors[k].source = "deductible"
         /\ engine.ret.riskFactors[k].type = "financial_risk"
         /\ engine.ret.riskFactors[k].category = "deductible_risks"
    /\ \E k \in 1..Len(engine.ret.riskFactors) :
         /\ engine.ret.riskFactors[k].id = "umbrella-policy-recommended"
         /\ engine.ret.riskFactors[k].type = "opportunity"

----------------------------------------------------------------------------
(* Claims about what the engine derives from the aggregated risk factors *)

Reported == engine.pc = "reported" /\ engine.ret.success

\* the indices of the factors of severity high or critical
HighOrCritical(riskFactors) ==
  { i \in 1..Len(riskFactors) : riskFactors[i].severity \in { "high", "critical" } }

\* the recommendation is the one made for the category: it lists the factors
\* of severity high or critical of that category, in their order
MadeFor(recommendation, category, riskFactors) ==
  recommendation.risks =
    LET ofCategory == SelectSeq(riskFactors,
                                LAMBDA r : /\ r.category = category
                                           /\ r.severity \in { "high", "critical" })
    IN [ k \in 1..Len(ofCategory) |-> ofCategory[k].id ]

PriorityRank(priority) ==
  CASE priority = "critical" -> 4
    [] priority = "high" -> 3
    [] priority = "medium" -> 2
    [] priority = "low" -> 1

ClaimedStatus(riskFactors, Counts(_)) ==
  IF \A i \in 1..Len(riskFactors) : ~Counts(riskFactors[i]) THEN "compliant"
  ELSE IF \E i \in 1..Len(riskFactors) :
            /\ Counts(riskFactors[i])
            /\ riskFactors[i].severity \in { "high", "critical" }
  THEN "non-compliant"
  ELSE "review-needed"

Pressing(riskFactors) ==
  { i \in 1..Len(riskFactors) :
      riskFactors[i].severity = "critical" \/ riskFactors[i].urgency = "immediate" }

\* C23: in every engine result, criticalIssues corresponds exactly to the
\* aggregated risk factors whose severity is critical or whose urgency is
\* immediate: every such factor appears once, in its place among them, and no
\* other factor appears.
C23_CriticalIssuesAreThePressingFactors ==
  Reported =>
    LET riskFactors == engine.ret.riskFactors
        criticalIssues == engine.ret.criticalIssues
        pressing == Pressing(riskFactors)
    IN /\ Len(criticalIssues) = Cardinality(pressing)
       /\ \A i \in pressing :
            LET k == Cardinality({ j \in pressing : j <= i })
            IN /\ criticalIssues[k].id = riskFactors[i].id
               /\ criticalIssues[k].severity = riskFactors[i].severity
               /\ criticalIssues[k].category = riskFactors[i].category

\* a factor that is pressing by its urgency alone follows one that is not
\* pressing at all
C23_Witness ==
  /\ Reported
  /\ Len(engine.ret.riskFactors) = 2
  /\ Pressing(engine.ret.riskFactors) = { 2 }
  /\ engine.ret.riskFactors[2].severity # "critical"
  /\ Len(engine.ret.criticalIssues) = 1

----------------------------------------------------------------------------
(* Claims about the coverage-gap and the deductible analyzer *)

\* the coverage-gap analyzer of the constructor has run and succeeded
GapsAnalysed ==
  /\ engine.pc = "called"
  /\ Len(engine.results) >= 1
  /\ engine.analyzers["coverageGap"] = "own"
  /\ engine.results[1].result.success

\* the field of a document that states the coverage, "" if there is none
FieldOf(name) ==
  CASE name = "Bodily Injury Liability" -> "liabilityLimits"
    [] name = "Property Damage Liability" -> "propertyDamage"
    [] OTHER -> ""

\* the policy has the coverage: the analyzer's own extraction finds it, or the
\* text of the policy names it, or the policy carries the document's field
\* that states it
Carries(policy, expected) ==
  \/ FindCoverage(extractCurrentCoverages(policy).coverages, expected) # 0
  \/ /\ policy.extractedText.t = "string"
     /\ Includes(toLowerCase(policy.extractedText.v), toLowerCase(expected.name))
  \/ /\ policy.fields.t = "object"
     /\ FieldOf(expected.name) # ""
     /\ Truthy(policy.fields[FieldOf(expected.name)])

\* the 'missing' factors of the risks that are about the expected coverage
MissingOf(risks, expected) ==
  { k \in 1..Len(risks) :
      risks[k].id = "missing-" \o Dashed(toLowerCase(expected.name)) }

\* the severity and the urgency the claim gives a missing coverage
RatedAsMissing(risk, expected) ==
  /\ risk.category = "coverage_gaps"
  /\ risk.severity = IF expected.required THEN "critical"
                     ELSE IF expected.recommended THEN "high" ELSE "medium"
  /\ (risk.urgency = "immediate") <=> expected.required

\* C24: for every expected coverage of the classified policy type that the
\* policy does not have, the coverage-gap analyzer emits exactly one
\* coverage_gaps factor, of severity critical if the coverage is required, high
\* if it is recommended and medium otherwise, with urgency immediate exactly
\* when it is required; an expected coverage the policy has yields no
\* 'missing' factor.
C24_MissingCoveragesAreTheAbsentOnes ==
  GapsAnalysed =>
    LET risks == engine.results[1].result.risks
        expectedCoverages ==
          getExpectedCoverages(engine.policyClassification.primaryType)
    IN \A n \in 1..Len(expectedCoverages) :
         IF Carries(engine.policy, expectedCoverages[n])
         THEN MissingOf(risks, expectedCoverages[n]) = {}
         ELSE /\ Cardinality(MissingOf(risks, expectedCoverages[n])) = 1
              /\ \A k \in MissingOf(risks, expectedCoverages[n]) :
                   RatedAsMissing(risks[k], expectedCoverages[n])

\* the deductible analyzer of the constructor has run and succeeded
DeductiblesAnalysed ==
  /\ engine.pc = "called"
  /\ Len(engine.results) = 3
  /\ engine.analyzers["deductible"] = "own"
  /\ engine.results[3].result.success

\* the factors that suggest another deductible
Suggestions(risks) ==
  { k \in 1..Len(risks) : "suggestedDeductible" \in DOMAIN risks[k] }

StandardTiers == { 250, 500, 1000, 2500, 5000 }

Distance(a, b) == IF a >= b THEN a - b ELSE b - a

\* no standard tier lies strictly between the two deductibles
NearestTier(current, suggested) ==
  /\ suggested \in StandardTiers
  /\ suggested # current
  /\ \A tier \in StandardTiers :
       ~(Min(current, suggested) < tier /\ tier < Max(current, suggested))

\* the savings are 15% of the change of the deductible, to the nearest dollar
FifteenPercent(risk) ==
  /\ 100 * Distance(risk.potentialSavings, 0)
       >= 15 * Distance(risk.suggestedDeductible, risk.currentDeductible) - 50
  /\ 100 * Distance(risk.potentialSavings, 0)
       <= 15 * Distance(risk.suggestedDeductible, risk.currentDeductible) + 50
  /\ (risk.potentialSavings >= 0) <=> (risk.optimizationType = "increase")

\* C25: whenever the deductible analyzer suggests changing a deductible, the
\* suggested value is a standard tier (250, 500, 1000, 2500 or 5000), the
\* nearest one in the direction of the change, a suggested increase is at most
\* 50% of the profile's emergency fund, and the estimated annual premium delta
\* is 15% of the change of the deductible.
C25_SuggestedDeductibleIsAffordableTier ==
  DeductiblesAnalysed =>
    \A k \in Suggestions(engine.results[3].result.risks) :
      LET risk == engine.results[3].result.risks[k]
      IN /\ NearestTier(risk.currentDeductible, risk.suggestedDeductible)
         /\ (risk.optimizationType = "increase")
              <=> (risk.suggestedDeductible > risk.currentDeductible)
         /\ risk.suggestedDeductible > risk.currentDeductible =>
              2 * risk.suggestedDeductible
                <= Num(Defaulted(engine.userProfile).emergencyFund)
         /\ FifteenPercent(risk)

----------------------------------------------------------------------------
(* Claims about what a run of the pipeline reports *)

\* C30: the non-fatal findings of validation (the warnings about the file, and
\* the validation errors of the manual fields, which validateInputs downgrades
\* to warnings) are in the warnings list the run returns.
C30_ValidationWarningsAreReturned ==
  \A r \in Runs :
    Done(r) /\ run[r].validationResult.success =>
      \A i \in 1..Len(run[r].validationResult.warnings) :
        \E k \in 1..Len(run[r].ret.warnings) :
          run[r].ret.warnings[k]
            = Warning("validation", run[r].validationResult.warnings[i], r)

\* executeAnalysis has returned a result
AnalysisReturned == analysis.pc = "done" /\ analysis.ret.success

\* the stage results that report success
SucceededStages(result) ==
  { a \in { "documentAnalysis", "classificationAnalysis", "riskAnalysis",
            "aiAnalysis" } : result[a].success }

\* the confidence of the factor-penalty model for the run: the document is of
\* poor quality when document processing reports no success, and the
\* analyzers that succeeded are the stage analyses whose result reports success
PenaltyModelConfidence ==
  Max(0, Min(100,
    100 - (IF Cardinality(ProfileKeys(analysis.userProfile)) < 3 THEN 20 ELSE 0)
        - (IF Cardinality(Keys(analysis.documentResult.structuredData)) < 5
           THEN 15 ELSE 0)
        - (IF analysis.ai.rejects THEN 25 ELSE 0)
        - (IF ~analysis.documentResult.success THEN 30 ELSE 0)
        + (IF Cardinality(SucceededStages(analysis.ret.result)) >= 3
           THEN 10 ELSE 0)))

\* C26: the confidence in the result of a run is that of the factor-penalty
\* model: 100, less 20 for a profile of fewer than 3 fields, less 15 for fewer
\* than 5 structured fields, less 25 if the enrichment failed, less 30 if the
\* document quality is poor, plus 10 only if at least three analyzers
\* succeeded, kept within 0..100; it is a function of these inputs.
C26_ConfidenceFollowsPenaltyModel ==
  AnalysisReturned => analysis.ret.result.confidence = PenaltyModelConfidence

\* the limits and the deductible a document can state
AnalyzedFields == { "liabilityLimits", "propertyDamage", "deductible" }

\* the risk factors the engine finds for the text and the fields of the document
FactorsOfDocument ==
  RiskEngine_analyzeRisks(
    analysis.analyzers,
    Policy(analysis.documentResult.structuredData,
           analysis.documentResult.extractedText, Undefined),
    Classification(analysis.ret.result.classificationAnalysis.primaryType),
    analysis.userProfile).riskFactors

\* C27: in a run whose document states a liability limit, a property-damage
\* limit or a deductible among its structured fields, the analyzers evaluate
\* the stated values and not their defaults: the risk factors of the run are
\* those of the document's own fields.
C27_DocumentValuesAreAnalyzed ==
  /\ AnalysisReturned
  /\ Keys(analysis.documentResult.structuredData) \cap AnalyzedFields # {}
  => analysis.ret.result.riskAnalysis.riskFactors = FactorsOfDocument

\* every analyzer of the engine failed
AllAnalyzersFailed(riskAnalysis) ==
  /\ "analyzerResults" \in DOMAIN riskAnalysis
  /\ \A i \in 1..Len(riskAnalysis.analyzerResults) :
       ~riskAnalysis.analyzerResults[i].result.success

\* C28: a run in which all three analyzers failed does not present the policy
\* as free of risk: the risk level is not 'minimal', the overall score has no
\* positive risk adjustment, and the risk factors hold the explicit 'analysis
\* incomplete' finding.
C28_FailedAnalyzersAreNotRiskFree ==
  AnalysisReturned /\ AllAnalyzersFailed(analysis.ret.result.riskAnalysis) =>
    /\ analysis.ret.result.riskAnalysis.riskLevel # "minimal"
    /\ analysis.ret.result.overallScore
         <= calculateOverallScore(NoRisk, analysis.ret.result.aiAnalysis)
    /\ \E i \in 1..Len(analysis.ret.result.riskAnalysis.riskFactors) :
         analysis.ret.result.riskAnalysis.riskFactors[i].id = "fallback-risk"

KnownTypes == { POLICY_TYPES[i].type : i \in 1..Len(POLICY_TYPES) }

\* the known policy type the manual fields declare, "" if they declare none
DeclaredType(policyData) ==
  IF policyData.t # "object" THEN ""
  ELSE IF policyData.coverageType.t = "string"
          /\ policyData.coverageType.v \in KnownTypes
  THEN policyData.coverageType.v
  ELSE IF policyData.policyType.t = "string"
          /\ policyData.policyType.v \in KnownTypes
  THEN policyData.policyType.v
  ELSE ""

\* C29: in a run without a document whose manual fields declare a known policy
\* type (coverageType or policyType, e.g. 'auto'), the classification's
\* primaryType is that type and not 'unknown'.
C29_ManualFieldsDecideTheType ==
  /\ AnalysisReturned
  /\ analysis.file.t = "null"
  /\ DeclaredType(analysis.policyData) # ""
  => analysis.ret.result.classificationAnalysis.primaryType
       = DeclaredType(analysis.policyData)

====
